---------------------------- MODULE Spec2Model ----------------------------
(***************************************************************************)
(* A model of the map download service (MapService, MapController).        *)
(*                                                                         *)
(*   Spec        the upload transaction (saveUploadedMap) of several       *)
(*               concurrent uploads against one storage directory, with    *)
(*               metadata reads (getMapMetadata) in between.  One action   *)
(*               is the code between two awaits: Node runs it atomically.  *)
(*                                                                         *)
(* Strings are sequences of one-character strings, so that toLowerCase,    *)
(* endsWith, split and Number are computed as the code computes them.      *)
(* A file of the storage directory is a record, not its bytes: an artifact *)
(* is known by its length, a metadata file by the JSON text it holds.      *)
(***************************************************************************)
EXTENDS Integers, Sequences, FiniteSets, TLC

(***************************************************************************)
(* Bounds of the model.                                                    *)
(***************************************************************************)
\* Uploads that run, concurrently, in one behaviour.
MaxUploads == 2

(***************************************************************************)
(* Strings.                                                                *)
(***************************************************************************)
\* The value `undefined' of an optional string: no string holds an element
\* of more than one character.
Undefined == <<"undefined">>

UpperCaseLetters ==
  <<"A", "B", "C", "D", "E", "F", "G", "H", "I", "J", "K", "L", "M",
    "N", "O", "P", "Q", "R", "S", "T", "U", "V", "W", "X", "Y", "Z">>

LowerCaseLetters ==
  <<"a", "b", "c", "d", "e", "f", "g", "h", "i", "j", "k", "l", "m",
    "n", "o", "p", "q", "r", "s", "t", "u", "v", "w", "x", "y", "z">>

\* String.prototype.toLowerCase, on the letters A-Z.
toLowerCase(s) ==
  [i \in 1..Len(s) |->
     IF \E k \in 1..26 : UpperCaseLetters[k] = s[i]
       THEN LowerCaseLetters[CHOOSE k \in 1..26 : UpperCaseLetters[k] = s[i]]
       ELSE s[i]]

\* String.prototype.endsWith.
endsWith(s, suffix) ==
  /\ Len(suffix) <= Len(s)
  /\ SubSeq(s, Len(s) - Len(suffix) + 1, Len(s)) = suffix

\* a || b on optional strings: undefined and "" are falsy.
OrElse(a, b) == IF a = Undefined \/ a = <<>> THEN b ELSE a

MbtilesExt == <<".", "m", "b", "t", "i", "l", "e", "s">>

\* String.prototype.split(sep), sep one character: the pieces between the
\* separators, one more than there are separators.
RECURSIVE split(_, _)
split(s, sep) ==
  IF \E i \in 1..Len(s) : s[i] = sep
    THEN LET i == CHOOSE i \in 1..Len(s) :
                    s[i] = sep /\ \A j \in 1..(i - 1) : s[j] # sep
         IN  <<SubSeq(s, 1, i - 1)>> \o split(SubSeq(s, i + 1, Len(s)), sep)
    ELSE <<s>>

(***************************************************************************)
(* Numbers.  A JavaScript number is NaN or a decimal value * 10^-scale,    *)
(* kept without trailing zeros, so that a value has one form and is an     *)
(* integer exactly when its scale is 0.  JsUndefined is the value of an    *)
(* array element that is not there.                                        *)
(***************************************************************************)
NaN         == [kind |-> "NaN", value |-> 0, scale |-> 0]
JsUndefined == [kind |-> "undefined", value |-> 0, scale |-> 0]

RECURSIVE Decimal(_, _)
Decimal(value, scale) ==
  IF scale > 0 /\ value % 10 = 0
    THEN Decimal(value \div 10, scale - 1)
    ELSE [kind |-> "number", value |-> value, scale |-> scale]

DecimalDigits == <<"0", "1", "2", "3", "4", "5", "6", "7", "8", "9">>

IsDigits(s) == \A i \in 1..Len(s) : \E d \in 1..10 : DecimalDigits[d] = s[i]

RECURSIVE DigitsValue(_)
DigitsValue(s) ==
  IF s = <<>> THEN 0
  ELSE 10 * DigitsValue(SubSeq(s, 1, Len(s) - 1))
       + (CHOOSE d \in 1..10 : DecimalDigits[d] = s[Len(s)]) - 1

\* Number(s) of a string of digits, letters, "-", "+" and ".": the empty
\* string is 0, a signed decimal literal is its value, anything else NaN.
\* (Strings with white space, an exponent, a radix prefix or "Infinity" are
\* not among the strings tried.)
Number(s) ==
  IF s = <<>> THEN Decimal(0, 0)
  ELSE
    LET signed == s[1] \in {"-", "+"}
        sign   == IF s[1] = "-" THEN -1 ELSE 1
        body   == IF signed THEN Tail(s) ELSE s
        parts  == split(body, ".")
    IN  IF Len(parts) = 1 /\ body # <<>> /\ IsDigits(body)
          THEN Decimal(sign * DigitsValue(body), 0)
        ELSE IF /\ Len(parts) = 2
                /\ IsDigits(parts[1]) /\ IsDigits(parts[2])
                /\ parts[1] \o parts[2] # <<>>
          THEN Decimal(sign * DigitsValue(parts[1] \o parts[2]), Len(parts[2]))
        ELSE NaN

\* A number that is an integer.
IsInteger(n) == n.kind = "number" /\ n.scale = 0

\* A default of 1 for a part that is missing or not a number.
OrOne(n) == IF n.kind = "number" THEN n ELSE Decimal(1, 0)

\* n || 0: NaN, undefined and 0 are falsy.
OrZero(n) == IF n.kind = "number" THEN n ELSE Decimal(0, 0)

\* a > b and a < b on numbers that are not NaN.
Greater(a, b) ==
  LET m == IF a.scale > b.scale THEN a.scale ELSE b.scale
      Pow10[k \in 0..m] == IF k = 0 THEN 1 ELSE 10 * Pow10[k - 1]
  IN  a.value * Pow10[m - a.scale] > b.value * Pow10[m - b.scale]

\* path.basename(p, ext) of a name without directory separators: the
\* extension is cut when the name ends with it and is more than it.
basename(p, ext) ==
  IF endsWith(p, ext) /\ p # ext THEN SubSeq(p, 1, Len(p) - Len(ext))
  ELSE IF p = ext THEN <<>> ELSE p


(***************************************************************************)
(* JSON.  A JSON text is known by its members; a member is tagged with its *)
(* JSON type.  JSON.stringify leaves out a member whose value is           *)
(* undefined, and JSON.parse reads a member that is not there as           *)
(* undefined.                                                              *)
(***************************************************************************)
JsonString(s) == IF s = Undefined THEN <<"omitted">> ELSE <<"string", s>>
\* A string known by the value it is the text of: a uuid, an ISO timestamp.
JsonAtom(x)   == <<"string", x>>
JsonNumber(n) == <<"number", n>>
JsonArray(a)  == <<"array", a>>

ParseString(j) == IF j[1] = "string" THEN j[2] ELSE Undefined
ParseAtom(j)   == j[2]
ParseNumber(j) == j[2]
ParseArray(j)  == j[2]

\* A stringify that writes the record as it is before the checksum is set.
JSONstringifyNoChecksum(m) ==
  [mapId       |-> JsonAtom(m.mapId),
   name        |-> JsonString(m.name),
   basename    |-> JsonAtom(m.basename),
   description |-> JsonString(m.description),
   createdAt   |-> JsonAtom(m.createdAt),
   updatedAt   |-> JsonAtom(m.updatedAt),
   version     |-> JsonString(m.version),
   bounds      |-> JsonArray(m.metadata.bounds),
   center      |-> JsonArray(m.metadata.center),
   format      |-> JsonString(m.metadata.format),
   minzoom     |-> JsonNumber(m.metadata.minzoom),
   maxzoom     |-> JsonNumber(m.metadata.maxzoom),
   attribution |-> JsonString(m.metadata.attribution),
   size        |-> JsonNumber(m.size),
   checksum    |-> JsonString(Undefined)]

\* JSON.stringify(metadata, null, 2) of a MapMetadata built by an upload.
JSONstringify(m) ==
  [mapId       |-> JsonAtom(m.mapId),
   name        |-> JsonString(m.name),
   basename    |-> JsonAtom(m.basename),
   description |-> JsonString(m.description),
   createdAt   |-> JsonAtom(m.createdAt),
   updatedAt   |-> JsonAtom(m.updatedAt),
   version     |-> JsonString(m.version),
   bounds      |-> JsonArray(m.metadata.bounds),
   center      |-> JsonArray(m.metadata.center),
   format      |-> JsonString(m.metadata.format),
   minzoom     |-> JsonNumber(m.metadata.minzoom),
   maxzoom     |-> JsonNumber(m.metadata.maxzoom),
   attribution |-> JsonString(m.metadata.attribution),
   size        |-> JsonNumber(m.size),
   checksum    |-> JsonString(m.checksum)]

\* JSON.parse of such a text.
JSONparse(t) ==
  [mapId       |-> ParseAtom(t.mapId),
   name        |-> ParseString(t.name),
   basename    |-> ParseAtom(t.basename),
   description |-> ParseString(t.description),
   createdAt   |-> ParseAtom(t.createdAt),
   updatedAt   |-> ParseAtom(t.updatedAt),
   version     |-> ParseString(t.version),
   metadata    |-> [bounds      |-> ParseArray(t.bounds),
                    center      |-> ParseArray(t.center),
                    format      |-> ParseString(t.format),
                    minzoom     |-> ParseNumber(t.minzoom),
                    maxzoom     |-> ParseNumber(t.maxzoom),
                    attribution |-> ParseString(t.attribution)],
   size        |-> ParseNumber(t.size),
   checksum    |-> ParseString(t.checksum)]

(***************************************************************************)
(* The storage directory and the uploads.                                  *)
(***************************************************************************)
VARIABLES
  dirs,       \* the directories that exist, among "base" and "metadata"
  mapFile,    \* mapFile[id]: the artifact {base}/{id}.mbtiles
  metaFile,   \* metaFile[id]: the record {base}/metadata/{id}.json
  up,         \* up[p]: the p-th call of saveUploadedMap
  clock,      \* the wall clock, in milliseconds
  diff,       \* a call of findChangedTiles: its arguments and its result
  latest,     \* a call of getLatestMapVersion over a metadata directory
  compared,     \* a call of compareVersions: its arguments and its result
  latestUpload, \* a call of getLatestMapVersion by upload time
  download,     \* a download request: the controller, streamMap, the streams
  measured      \* a call of a function of MetricsCalculator

vars == <<dirs, mapFile, metaFile, up, clock, diff, latest, compared,
          latestUpload, download, measured>>

uploadVars == <<dirs, mapFile, metaFile, up, clock>>

\* What an upload leaves alone.
outsideUpload == <<diff, latest, compared, latestUpload, download, measured>>

\* What each of the other calls leaves alone.
outsideDiff ==
  <<uploadVars, latest, compared, latestUpload, download, measured>>
outsideLatest ==
  <<uploadVars, diff, compared, latestUpload, download, measured>>
outsideComparison ==
  <<uploadVars, diff, latest, latestUpload, download, measured>>
outsideLatestUpload ==
  <<uploadVars, diff, latest, compared, download, measured>>
outsideDownload ==
  <<uploadVars, diff, latest, compared, latestUpload, measured>>
outsideMeasured ==
  <<uploadVars, diff, latest, compared, latestUpload, download>>

Uploaders == 1..MaxUploads

\* An id that does not depend on the call.
FixedId(p) == 1

\* uuidv4(): the id of a call is its own, never another's (a 122-bit random
\* number); the calls being numbered in the order they are made, the id of
\* the p-th call is p.
uuidv4(p) == p

MapIds == Uploaders

\* Sizes in bytes.
ChunkThreshold == 10 * 1024 * 1024
ChunkSize      == 1024 * 1024

\* The calls of saveUploadedMap that are tried.  A buffer is known by its
\* length and a name for its bytes: one a byte below the threshold, one of
\* the threshold's length, one a byte longer (eleven chunks, the last of one
\* byte) and a small one under a name that is no .mbtiles name.  The caller
\* gives a name and a version with an empty description, or a description
\* alone, or nothing.
UploadRequests ==
  { [fileBuffer       |-> [length |-> ChunkThreshold - 1, content |-> <<"r">>],
     originalFilename |-> <<"a", ".", "m", "b", "t", "i", "l", "e", "s">>,
     mapName          |-> Undefined,
     description      |-> Undefined,
     version          |-> Undefined],
    [fileBuffer       |-> [length |-> ChunkThreshold, content |-> <<"t">>],
     originalFilename |-> <<"A", ".", "M", "B", "T", "I", "L", "E", "S">>,
     mapName          |-> <<"c", "i", "t", "y">>,
     description      |-> <<>>,
     version          |-> <<"2", ".", "0", ".", "0">>],
    [fileBuffer       |-> [length |-> ChunkThreshold + 1, content |-> <<"u">>],
     originalFilename |-> <<"a", ".", "m", "b", "t", "i", "l", "e", "s">>,
     mapName          |-> Undefined,
     description      |-> <<"n", "e", "w">>,
     version          |-> Undefined],
    [fileBuffer       |-> [length |-> 3, content |-> <<"s">>],
     originalFilename |-> <<"a", ".", "t", "x", "t">>,
     mapName          |-> Undefined,
     description      |-> Undefined,
     version          |-> Undefined] }

NoFile == [exists |-> FALSE, len |-> 0]
NoMeta == [exists |-> FALSE, complete |-> FALSE, text |-> <<>>]
NoError == "none"
NoRecord == <<>>

\* A getMapMetadata that answers for any file there is, parsed or not.
getMapMetadataUnparsed(mapId) ==
  IF mapId \in MapIds /\ metaFile[mapId].exists
    THEN [ok |-> TRUE, value |-> NoRecord]
    ELSE [ok |-> FALSE, value |-> NoRecord]

\* What getMapMetadata gives on the storage as it is: the parsed record, or
\* "Map metadata not found" when the file cannot be read or parsed.
getMapMetadata(mapId) ==
  IF mapId \in MapIds /\ metaFile[mapId].exists /\ metaFile[mapId].complete
    THEN [ok |-> TRUE, value |-> JSONparse(metaFile[mapId].text)]
    ELSE [ok |-> FALSE, value |-> NoRecord]

DefaultVersion == <<"1", ".", "0", ".", "0">>
DescriptionPrefix ==
  <<"M", "a", "p", " ", "u", "p", "l", "o", "a", "d", "e", "d", " ",
    "f", "r", "o", "m", " ">>

\* generateChecksum: the digest of a buffer, known by the buffer it is of.
generateChecksum(fileBuffer) == <<"m", "d", "5", ":">> \o fileBuffer.content

\* A record whose updatedAt is read from the clock when the record is built.
BuildMetadataStampedLater(u) ==
  [mapId       |-> u.mapId,
   name        |-> OrElse(u.mapName, basename(u.originalFilename, MbtilesExt)),
   basename    |-> u.mapId,
   description |-> OrElse(u.description,
                          DescriptionPrefix \o u.originalFilename),
   createdAt   |-> u.timestamp,
   updatedAt   |-> u.timestamp + 1,
   version     |-> OrElse(u.version, DefaultVersion),
   metadata    |-> [bounds      |-> <<-180, -85, 180, 85>>,
                    center      |-> <<0, 0, 2>>,
                    format      |-> <<"m", "b", "t", "i", "l", "e", "s">>,
                    minzoom     |-> 0,
                    maxzoom     |-> 18,
                    attribution |-> <<"M", "a", "p", " ", "d", "a", "t", "a",
                                      " ", "u", "p", "l", "o", "a", "d">>],
   size        |-> u.fileBuffer.length,
   checksum    |-> generateChecksum(u.fileBuffer)]

\* The MapMetadata that saveUploadedMap builds.
BuildMetadata(u) ==
  [mapId       |-> u.mapId,
   name        |-> OrElse(u.mapName, basename(u.originalFilename, MbtilesExt)),
   basename    |-> u.mapId,
   description |-> OrElse(u.description,
                          DescriptionPrefix \o u.originalFilename),
   createdAt   |-> u.timestamp,
   updatedAt   |-> u.timestamp,
   version     |-> OrElse(u.version, DefaultVersion),
   metadata    |-> [bounds      |-> <<-180, -85, 180, 85>>,
                    center      |-> <<0, 0, 2>>,
                    format      |-> <<"m", "b", "t", "i", "l", "e", "s">>,
                    minzoom     |-> 0,
                    maxzoom     |-> 18,
                    attribution |-> <<"M", "a", "p", " ", "d", "a", "t", "a",
                                      " ", "u", "p", "l", "o", "a", "d">>],
   size        |-> u.fileBuffer.length,
   checksum    |-> generateChecksum(u.fileBuffer)]

\* No upload_chunk_progress event yet.
NoChunkEvent ==
  [processedChunks |-> 0, totalChunks |-> 0, progress |-> 0,
   writtenBytes |-> 0, written |-> 0]

IdleUpload ==
  [pc               |-> "idle",
   mapId            |-> 0,
   timestamp        |-> 0,
   fileBuffer       |-> [length |-> 0, content |-> <<>>],
   originalFilename |-> <<>>,
   mapName          |-> Undefined,
   description      |-> Undefined,
   version          |-> Undefined,
   stages           |-> <<>>,
   writePath        |-> "none",
   i                |-> 0,
   processedChunks  |-> 0,
   writes           |-> <<>>,
   chunkEvents      |-> 0,
   lastChunkEvent   |-> NoChunkEvent,
   handleOpen       |-> FALSE,
   pending          |-> NoError,
   error            |-> NoError,
   unlinkedMap      |-> FALSE,
   unlinkedMeta     |-> FALSE,
   unlinkFailed     |-> FALSE,
   cleanupLogged    |-> "none",
   metadata         |-> NoRecord,
   returned         |-> FALSE,
   thrown           |-> NoError]

UploadInit ==
  /\ dirs = {}
  /\ mapFile = [id \in MapIds |-> NoFile]
  /\ metaFile = [id \in MapIds |-> NoMeta]
  /\ up = [p \in Uploaders |-> IdleUpload]
  /\ clock = 0


(***************************************************************************)
(* saveUploadedMap.  An action is the completion of the awaited call the   *)
(* upload stands at, with the code that follows it up to the next await.   *)
(***************************************************************************)
\* The catch block is entered with `error': the upload stands at the first
\* unlink of the cleanup.
Catch(u, error) == [u EXCEPT !.pc = "unlinkMap", !.error = error]

\* The stages of the transaction that upload u has completed, in order.
Completed(u, stage) == \E k \in 1..Len(u.stages) : u.stages[k] = stage

\* The code after the artifact is written: the checksum, the record, and
\* the call of writeFile for the metadata.
AfterFileWritten(u, checksumThrows) ==
  IF checksumThrows
    THEN Catch([u EXCEPT !.stages = Append(@, "write")], "ChecksumError")
    ELSE [u EXCEPT !.pc = "writeMetadata",
                   !.stages = @ \o <<"write", "checksum", "record">>,
                   !.metadata = BuildMetadata(u)]

\* saveUploadedMap is called: the id, the timestamp, the paths, and the
\* first mkdir is awaited.
UploadStart(p, r) ==
  /\ up[p].pc = "idle"
  /\ \A q \in 1..(p - 1) : up[q].pc # "idle"
  /\ clock' = clock + 1
  /\ up' = [up EXCEPT ![p] =
            [@ EXCEPT !.pc = "mkdirBase",
                      !.stages = <<"id">>,
                      !.mapId = uuidv4(p),
                      !.timestamp = clock,
                      !.fileBuffer = r.fileBuffer,
                      !.originalFilename = r.originalFilename,
                      !.mapName = r.mapName,
                      !.description = r.description,
                      !.version = r.version]]
  /\ UNCHANGED <<dirs, mapFile, metaFile, outsideUpload>>

\* mkdir(storageBasePath, {recursive: true}).
MkdirBase(p) ==
  /\ up[p].pc = "mkdirBase"
  /\ \/ /\ dirs' = dirs \cup {"base"}
        /\ up' = [up EXCEPT ![p].pc = "mkdirMetadata"]
     \/ /\ dirs' = dirs
        /\ up' = [up EXCEPT ![p] = Catch(@, "MkdirError")]
  /\ UNCHANGED <<mapFile, metaFile, clock, outsideUpload>>

\* The extension check of saveUploadedMap.
ValidFileType(originalFilename) ==
  endsWith(toLowerCase(originalFilename), MbtilesExt)

\* A choice that takes the threshold itself for a large file.
UseChunkedWriteFromThreshold(fileSize) == fileSize >= ChunkThreshold

\* The choice between the chunked and the direct write.
UseChunkedWrite(fileSize) == fileSize > ChunkThreshold

\* mkdir(dirname(metadataFilePath), {recursive: true}), then the extension
\* check and the choice of the write.
MkdirMetadata(p) ==
  /\ up[p].pc = "mkdirMetadata"
  /\ \/ /\ dirs' = dirs \cup {"metadata"}
        /\ up' = [up EXCEPT ![p] =
             IF ~ValidFileType(@.originalFilename)
               THEN Catch([@ EXCEPT !.stages = Append(@, "directories")],
                          "InvalidFileType")
             ELSE IF UseChunkedWrite(@.fileBuffer.length)
               THEN [@ EXCEPT !.pc = "open", !.writePath = "chunked",
                              !.stages = @ \o <<"directories", "validation">>]
               ELSE [@ EXCEPT !.pc = "writeFile", !.writePath = "direct",
                              !.stages = @ \o <<"directories", "validation">>]]
     \/ /\ dirs' = dirs
        /\ up' = [up EXCEPT ![p] = Catch(@, "MkdirError")]
  /\ UNCHANGED <<mapFile, metaFile, clock, outsideUpload>>

\* fs.promises.open(mapFilePath, "w"): the file is created empty.
OpenFile(p) ==
  /\ up[p].pc = "open"
  /\ \/ /\ mapFile' = [mapFile EXCEPT ![up[p].mapId] =
                         [exists |-> TRUE, len |-> 0]]
        /\ up' = [up EXCEPT ![p] =
                    [@ EXCEPT !.pc = "chunk", !.handleOpen = TRUE, !.i = 0]]
     \/ /\ mapFile' = mapFile
        /\ up' = [up EXCEPT ![p] = Catch(@, "OpenError")]
  /\ UNCHANGED <<dirs, metaFile, clock, outsideUpload>>

Min(a, b) == IF a < b THEN a ELSE b

\* Math.round of num / den, den positive: halves go up.
MathRound(num, den) == (2 * num + den) \div (2 * den)

\* The sum of a sequence of numbers.
RECURSIVE SumSeq(_)
SumSeq(q) == IF q = <<>> THEN 0 ELSE Head(q) + SumSeq(Tail(q))

\* A chunk that is not cut at the end of the buffer.
ChunkLengthUncut(fileSize, i) == ChunkSize

\* The chunk the loop writes at offset i.
ChunkLength(fileSize, i) == Min(i + ChunkSize, fileSize) - i

\* The offsets at which a chunk write is let fail: the first chunk, and the
\* last, short, chunk of a buffer a byte above the threshold.
FailingOffsets == {0, 10 * ChunkSize}

\* Math.ceil(fileSize / chunkSize)
TotalChunks(fileSize) == (fileSize + ChunkSize - 1) \div ChunkSize

\* Math.max(1, Math.floor(totalChunks / 10))
TenthOfChunks(totalChunks) ==
  IF totalChunks \div 10 > 1 THEN totalChunks \div 10 ELSE 1

\* The condition of the upload_chunk_progress event.
LogsChunk(processedChunks, totalChunks) ==
  \/ processedChunks % TenthOfChunks(totalChunks) = 0
  \/ processedChunks % 5 = 0

\* writtenBytes: processedChunks * chunkSize
WrittenBytes(processedChunks) == processedChunks * ChunkSize

\* The upload after its write of n bytes at offset i has settled: the count
\* of chunks, the progress event when it is due (with, beside its fields,
\* the bytes written to the file so far), and the step of the loop.
AfterChunk(u, n) ==
  LET processedChunks == u.processedChunks + 1
      totalChunks     == TotalChunks(u.fileBuffer.length)
      counted ==
        [u EXCEPT !.processedChunks = processedChunks,
                  !.writes = Append(@, n),
                  !.i = @ + ChunkSize,
                  !.pc = IF u.i + ChunkSize < u.fileBuffer.length
                           THEN "chunk" ELSE "close"]
  IN  IF LogsChunk(processedChunks, totalChunks)
        THEN [counted EXCEPT
                !.chunkEvents = @ + 1,
                !.lastChunkEvent =
                   [processedChunks |-> processedChunks,
                    totalChunks     |-> totalChunks,
                    progress        |-> MathRound(processedChunks * 100,
                                                  totalChunks),
                    writtenBytes    |-> WrittenBytes(processedChunks),
                    written         |-> SumSeq(u.writes) + n]]
        ELSE counted

\* A chunk loop without its finally: a write that fails leads to the catch
\* block with the file still open.
WriteChunkNoFinally(p) ==
  LET u == up[p]
      n == ChunkLength(u.fileBuffer.length, u.i)
  IN  /\ u.pc = "chunk"
      /\ \/ /\ mapFile' = [mapFile EXCEPT ![u.mapId].len = @ + n]
            /\ up' = [up EXCEPT ![p] = AfterChunk(u, n)]
         \/ /\ u.i \in FailingOffsets
            /\ mapFile' = mapFile
            /\ up' = [up EXCEPT ![p] = Catch(@, "WriteError")]
      /\ UNCHANGED <<dirs, metaFile, clock, outsideUpload>>

\* fileHandle.write(chunk) of the chunk at offset i, then the rest of the
\* loop's body and the loop's step.
\* A write that fails leaves the file as it was and leads to the finally
\* block.
WriteChunk(p) ==
  LET u == up[p]
      n == ChunkLength(u.fileBuffer.length, u.i)
  IN  /\ u.pc = "chunk"
      /\ \/ /\ mapFile' = [mapFile EXCEPT ![u.mapId].len = @ + n]
            /\ up' = [up EXCEPT ![p] = AfterChunk(u, n)]
         \/ /\ u.i \in FailingOffsets
            /\ mapFile' = mapFile
            /\ up' = [up EXCEPT ![p] =
                 [@ EXCEPT !.pc = "close", !.pending = "WriteError"]]
      /\ UNCHANGED <<dirs, metaFile, clock, outsideUpload>>

\* A close after which the upload goes on to the checksum whether or not a
\* chunk write has failed.
CloseFileAndGoOn(p) ==
  /\ up[p].pc = "close"
  /\ \E checksumThrows \in BOOLEAN :
       up' = [up EXCEPT ![p] =
         AfterFileWritten([@ EXCEPT !.handleOpen = FALSE], checksumThrows)]
  /\ UNCHANGED <<dirs, mapFile, metaFile, clock, outsideUpload>>

\* finally: fileHandle.close(); then the error of the loop is thrown on, or
\* the upload goes on to the checksum.
CloseFile(p) ==
  /\ up[p].pc = "close"
  /\ \E checksumThrows \in BOOLEAN :
       up' = [up EXCEPT ![p] =
         IF @.pending # NoError
           THEN Catch([@ EXCEPT !.handleOpen = FALSE], @.pending)
           ELSE AfterFileWritten([@ EXCEPT !.handleOpen = FALSE],
                                 checksumThrows)]
  /\ UNCHANGED <<dirs, mapFile, metaFile, clock, outsideUpload>>

\* fs.promises.writeFile(mapFilePath, fileBuffer): the whole buffer in one
\* call.  A write that fails leaves a file cut short.
WriteFileDirect(p) ==
  LET u == up[p]
  IN  /\ u.pc = "writeFile"
      /\ \/ /\ mapFile' = [mapFile EXCEPT ![u.mapId] =
                             [exists |-> TRUE, len |-> u.fileBuffer.length]]
            /\ \E checksumThrows \in BOOLEAN :
                 up' = [up EXCEPT ![p] =
                   AfterFileWritten([@ EXCEPT !.writes =
                                       Append(@, u.fileBuffer.length)],
                                    checksumThrows)]
         \/ /\ mapFile' = [mapFile EXCEPT ![u.mapId] =
                  [exists |-> TRUE, len |-> u.fileBuffer.length \div 2]]
            /\ up' = [up EXCEPT ![p] = Catch(@, "WriteError")]
      /\ UNCHANGED <<dirs, metaFile, clock, outsideUpload>>

\* fs.promises.writeFile(metadataFilePath, JSON.stringify(metadata)), then
\* the return of the record.  A write that fails leaves a text cut short,
\* which does not parse.
WriteMetadata(p) ==
  LET u == up[p]
  IN  /\ u.pc = "writeMetadata"
      /\ \/ /\ metaFile' = [metaFile EXCEPT ![u.mapId] =
                  [exists |-> TRUE, complete |-> TRUE,
                   text |-> JSONstringify(u.metadata)]]
            /\ up' = [up EXCEPT ![p] =
                        [@ EXCEPT !.pc = "done", !.returned = TRUE,
                                  !.stages = Append(@, "persist")]]
         \/ /\ metaFile' = [metaFile EXCEPT ![u.mapId] =
                  [exists |-> TRUE, complete |-> FALSE, text |-> <<>>]]
            /\ up' = [up EXCEPT ![p] = Catch(@, "MetadataWriteError")]
      /\ UNCHANGED <<dirs, mapFile, clock, outsideUpload>>

\* An unlink without its catch: a failure ends the cleanup, and the second
\* unlink is not made.
UnlinkMapUncaught(p) ==
  LET u == up[p]
  IN  /\ u.pc = "unlinkMap"
      /\ \/ /\ mapFile[u.mapId].exists
            /\ mapFile' = [mapFile EXCEPT ![u.mapId] = NoFile]
            /\ up' = [up EXCEPT ![p] =
                  [@ EXCEPT !.pc = "unlinkMetadata", !.unlinkedMap = TRUE]]
         \/ /\ mapFile' = mapFile
            /\ up' = [up EXCEPT ![p] =
                  [@ EXCEPT !.pc = "failed", !.unlinkedMap = TRUE,
                            !.unlinkFailed = TRUE,
                            !.cleanupLogged = "upload_cleanup_error",
                            !.thrown = u.error]]
      /\ UNCHANGED <<dirs, metaFile, clock, outsideUpload>>

\* unlink(mapFilePath).catch(() => {}): the file is removed, or the unlink
\* fails (always so when there is no file) and the failure is dropped.
UnlinkMap(p) ==
  LET u == up[p]
  IN  /\ u.pc = "unlinkMap"
      /\ \E rejects \in BOOLEAN :
           /\ ~rejects => mapFile[u.mapId].exists
           /\ mapFile' = IF rejects THEN mapFile
                                    ELSE [mapFile EXCEPT ![u.mapId] = NoFile]
           /\ up' = [up EXCEPT ![p] =
                       [@ EXCEPT !.pc = "unlinkMetadata",
                                 !.unlinkedMap = TRUE,
                                 !.unlinkFailed = rejects]]
      /\ UNCHANGED <<dirs, metaFile, clock, outsideUpload>>

\* What the cleanup logs after its two unlinks: each has its own catch, so
\* the try block always runs to its end.
CleanupLog(unlinkFailed) == "upload_cleanup_success"

\* unlink(metadataFilePath).catch(() => {}), the log of the cleanup, then
\* `throw error'.
UnlinkMetadata(p) ==
  LET u == up[p]
  IN  /\ u.pc = "unlinkMetadata"
      /\ \E rejects \in BOOLEAN :
           /\ ~rejects => metaFile[u.mapId].exists
           /\ metaFile' = IF rejects THEN metaFile
                                     ELSE [metaFile EXCEPT ![u.mapId] = NoMeta]
           /\ up' = [up EXCEPT ![p] =
                       [@ EXCEPT !.pc = "failed",
                                 !.unlinkedMeta = TRUE,
                                 !.unlinkFailed = @ \/ rejects,
                                 !.cleanupLogged =
                                    CleanupLog(u.unlinkFailed \/ rejects),
                                 !.thrown = u.error]]
      /\ UNCHANGED <<dirs, mapFile, clock, outsideUpload>>

(***************************************************************************)
(* findChangedTiles.  A tileChecksums map is the sequence of its entries   *)
(* <<key, checksum>> in insertion order, which is the order of             *)
(* Object.entries for keys that are not array indices; a manifest may      *)
(* carry no map at all.                                                    *)
(***************************************************************************)
MaxTiles == 2

TileKeys ==
  {<<"1", "0", "/", "2", "/", "3">>,
   <<"1", "/", "2">>,
   <<"1", ".", "5", "/", "2", "/", "3">>,
   <<"a", "/", "b", "/", "c">>}

TileChecksumValues == {<<"x">>, <<"y">>}

TileChecksumMaps ==
  UNION {{e \in [1..n -> TileKeys \X TileChecksumValues] :
            \A i, j \in 1..n : e[i][1] = e[j][1] => i = j} : n \in 0..MaxTiles}

\* The manifests, as far as findChangedTiles reads them.
Manifests ==
  {[hasTileChecksums |-> FALSE, tileChecksums |-> <<>>]}
    \cup {[hasTileChecksums |-> TRUE, tileChecksums |-> e] :
            e \in TileChecksumMaps}

\* tileChecksums[key]: undefined for a key that is not there.
ChecksumAt(tileChecksums, key) ==
  IF \E i \in 1..Len(tileChecksums) : tileChecksums[i][1] = key
    THEN tileChecksums[CHOOSE i \in 1..Len(tileChecksums) :
                         tileChecksums[i][1] = key][2]
    ELSE Undefined

\* A test that takes a manifest without a map for one with an empty map.
NeverLacks(metadata) == FALSE

\* !metadata.tileChecksums
LacksTileChecksums(metadata) == ~metadata.hasTileChecksums

\* A compared that passes over the keys the client does not have.
DiffersWherePresent(clientChecksum, currentChecksum) ==
  clientChecksum # Undefined /\ clientChecksum # currentChecksum

\* clientChecksum !== currentChecksum
Differs(clientChecksum, currentChecksum) == clientChecksum # currentChecksum

\* const [z, x, y] = key.split("/").map(Number), and the TileUpdate pushed.
TileUpdate(key, currentChecksum) ==
  LET parts == split(key, "/")
      at(i) == IF i <= Len(parts) THEN Number(parts[i]) ELSE JsUndefined
  IN  [z |-> at(1), x |-> at(2), y |-> at(3), checksum |-> currentChecksum]

\* The loop over Object.entries(currentMetadata.tileChecksums): the updates
\* pushed, each with the key it was pushed for.
RECURSIVE ChangedTiles(_, _)
ChangedTiles(entries, clientChecksums) ==
  IF entries = <<>> THEN <<>>
  ELSE
    LET key             == entries[1][1]
        currentChecksum == entries[1][2]
        clientChecksum  == ChecksumAt(clientChecksums, key)
    IN  (IF Differs(clientChecksum, currentChecksum)
           THEN <<[key |-> key, tile |-> TileUpdate(key, currentChecksum)]>>
           ELSE <<>>)
        \o ChangedTiles(Tail(entries), clientChecksums)

findChangedTiles(currentMetadata, clientMetadata) ==
  IF LacksTileChecksums(currentMetadata) \/ LacksTileChecksums(clientMetadata)
    THEN <<>>
    ELSE ChangedTiles(currentMetadata.tileChecksums,
                      clientMetadata.tileChecksums)

IdleDiff ==
  [pc              |-> "idle",
   currentMetadata |-> [hasTileChecksums |-> FALSE, tileChecksums |-> <<>>],
   clientMetadata  |-> [hasTileChecksums |-> FALSE, tileChecksums |-> <<>>],
   changedTiles    |-> <<>>,
   keys            |-> <<>>]

\* A call of findChangedTiles on two manifests.
CalledDiffs ==
  {[IdleDiff EXCEPT !.pc = "called", !.currentMetadata = current,
                    !.clientMetadata = client] :
     current \in Manifests, client \in Manifests}

\* The function awaits nothing: the call runs to its return in one step.
\* keys[i] is the key that changedTiles[i] was pushed for.
FindChangedTiles ==
  /\ diff.pc = "called"
  /\ LET changed == findChangedTiles(diff.currentMetadata, diff.clientMetadata)
     IN  diff' = [diff EXCEPT
                    !.pc = "returned",
                    !.changedTiles = [i \in 1..Len(changed) |-> changed[i].tile],
                    !.keys = [i \in 1..Len(changed) |-> changed[i].key]]
  /\ UNCHANGED outsideDiff


(***************************************************************************)
(* getLatestMapVersion, version policy.  The metadata directory is the     *)
(* sequence of its files in the order readdir lists them.                  *)
(***************************************************************************)
MaxFiles == 3

JsonExt == <<".", "j", "s", "o", "n">>
TmpExt  == <<".", "t", "m", "p">>

Versions ==
  {<<"1", ".", "2">>,
   <<"1", ".", "2", ".", "0">>,
   <<"1", ".", "1", "0", ".", "0">>,
   <<"2", ".", "0", ".", "0">>,
   <<"v", "2">>}

\* A MapMetadata as an upload builds it, with the given id and version.
StoredRecord(mapId, version) ==
  [mapId       |-> mapId,
   name        |-> <<"m">>,
   basename    |-> mapId,
   description |-> <<>>,
   createdAt   |-> 0,
   updatedAt   |-> 0,
   version     |-> version,
   metadata    |-> [bounds      |-> <<-180, -85, 180, 85>>,
                    center      |-> <<0, 0, 2>>,
                    format      |-> <<"m", "b", "t", "i", "l", "e", "s">>,
                    minzoom     |-> 0,
                    maxzoom     |-> 18,
                    attribution |-> <<>>],
   size        |-> 0,
   checksum    |-> <<"x">>]

\* What a file of the directory may be: a file that is no .json file, a
\* .json file that cannot be read or parsed, a record with a version, a
\* record without one.
FileKinds ==
  {[json |-> FALSE, complete |-> TRUE, version |-> <<"2", ".", "0", ".", "0">>],
   [json |-> TRUE, complete |-> FALSE, version |-> Undefined]}
    \cup {[json |-> TRUE, complete |-> TRUE, version |-> v] :
            v \in Versions \cup {Undefined}}

\* The i-th file of a listing: its name is its position.
DirectoryFile(i, kind) ==
  [name    |-> <<DecimalDigits[i + 1]>> \o (IF kind.json THEN JsonExt ELSE TmpExt),
   content |-> IF kind.complete
                 THEN [complete |-> TRUE,
                       text |-> JSONstringify(StoredRecord(i, kind.version))]
                 ELSE [complete |-> FALSE, text |-> <<>>]]

DirectoryListings ==
  UNION {{[i \in 1..n |-> DirectoryFile(i, kinds[i])] :
            kinds \in [1..n -> FileKinds]} : n \in 0..MaxFiles}

RECURSIVE filter(_, _)
filter(files, ext) ==
  IF files = <<>> THEN <<>>
  ELSE (IF endsWith(files[1].name, ext) THEN <<files[1]>> ELSE <<>>)
       \o filter(Tail(files), ext)

\* The loop of compareVersions from part i on.
RECURSIVE compareParts(_, _, _)
compareParts(v1Parts, v2Parts, i) ==
  LET maxLength == IF Len(v1Parts) > Len(v2Parts) THEN Len(v1Parts)
                                                  ELSE Len(v2Parts)
      v1Part == OrZero(IF i <= Len(v1Parts) THEN v1Parts[i] ELSE JsUndefined)
      v2Part == OrZero(IF i <= Len(v2Parts) THEN v2Parts[i] ELSE JsUndefined)
  IN  IF i > maxLength THEN 0
      ELSE IF Greater(v1Part, v2Part) THEN 1
      ELSE IF Greater(v2Part, v1Part) THEN -1
      ELSE compareParts(v1Parts, v2Parts, i + 1)

\* compareVersions of two strings.
compareVersions(version1, version2) ==
  LET parts1 == split(version1, ".")
      parts2 == split(version2, ".")
  IN  compareParts([i \in 1..Len(parts1) |-> Number(parts1[i])],
                   [i \in 1..Len(parts2) |-> Number(parts2[i])], 1)

\* compareVersions throws a TypeError on a version that is undefined.
compareVersionsThrows(version1, version2) ==
  version1 = Undefined \/ version2 = Undefined

\* A test that lets an equal version replace the running latest.
ReplacesFromEqual(comparison) == comparison >= 0

\* compareVersions(metadata.version, latestVersion) > 0
Replaces(comparison) == comparison > 0

IdleLatest ==
  [pc             |-> "idle",
   files          |-> <<>>,
   listed         |-> FALSE,
   jsonFiles      |-> <<>>,
   index          |-> 1,
   latestMetadata |-> <<>>,
   latestVersion  |-> <<>>,
   result         |-> <<>>,
   thrown         |-> NoError]

\* A call of getLatestMapVersion over a metadata directory.
CalledLatests ==
  {[IdleLatest EXCEPT !.pc = "readdir", !.files = files] :
     files \in DirectoryListings}

\* The loop is left: the running latest is returned, or there is none.
AfterLoop(l) ==
  IF l.index <= Len(l.jsonFiles) THEN l
  ELSE IF l.latestMetadata = <<>>
    THEN [l EXCEPT !.pc = "thrown", !.thrown = "No valid metadata found"]
    ELSE [l EXCEPT !.pc = "returned", !.result = l.latestMetadata]

\* readdir has listed the directory: the .json files are kept and the loop
\* stands at the first readFile.
AfterReaddir(l) ==
  LET jsonFiles == filter(l.files, JsonExt)
  IN  IF Len(jsonFiles) = 0
        THEN [l EXCEPT !.pc = "thrown", !.listed = TRUE,
                       !.thrown = "No map metadata files found"]
        ELSE [l EXCEPT !.pc = "readFile", !.listed = TRUE,
                       !.jsonFiles = jsonFiles]

\* An iteration of the loop: the record is parsed and compared with the
\* running latest; whatever is thrown skips the file.
AfterReadFile(l) ==
  LET file     == l.jsonFiles[l.index]
      metadata == JSONparse(file.content.text)
      thrown   == \/ ~file.content.complete
                  \/ /\ l.latestMetadata # <<>>
                     /\ compareVersionsThrows(metadata.version, l.latestVersion)
      replaces == /\ ~thrown
                  /\ \/ l.latestMetadata = <<>>
                     \/ Replaces(compareVersions(metadata.version,
                                                 l.latestVersion))
  IN  AfterLoop([l EXCEPT
                   !.index = @ + 1,
                   !.latestMetadata = IF replaces THEN <<metadata>> ELSE @,
                   !.latestVersion = IF replaces THEN metadata.version ELSE @])

\* readdir settles.
Readdir ==
  /\ latest.pc = "readdir"
  /\ \E fails \in BOOLEAN :
       latest' =
         IF fails THEN [latest EXCEPT !.pc = "thrown", !.thrown = "ENOENT"]
                  ELSE AfterReaddir(latest)
  /\ UNCHANGED outsideLatest

\* readFile of the file the loop stands at settles.
ReadFile ==
  /\ latest.pc = "readFile"
  /\ latest' = AfterReadFile(latest)
  /\ UNCHANGED outsideLatest


(***************************************************************************)
(* compareVersions, called on two version strings.  A version string is    *)
(* up to MaxSegments segments joined by ".".                               *)
(***************************************************************************)
MaxSegments == 3

VersionSegments == {<<"0">>, <<"2">>, <<"1", "0">>, <<"x">>}

RECURSIVE join(_, _)
join(parts, sep) ==
  IF Len(parts) = 1 THEN parts[1]
  ELSE parts[1] \o <<sep>> \o join(Tail(parts), sep)

VersionStrings ==
  UNION {{join(parts, ".") : parts \in [1..n -> VersionSegments]} :
           n \in 1..MaxSegments}

\* Two pairs of versions told apart by the numeric order of a segment and
\* by a trailing zero segment.
VersionPairs ==
  {<<(<<"1", ".", "1", "0", ".", "0">>), (<<"1", ".", "2", ".", "0">>)>>,
   <<(<<"1", ".", "2">>), (<<"1", ".", "2", ".", "0">>)>>}

IdleComparison ==
  [pc |-> "idle", version1 |-> <<>>, version2 |-> <<>>, result |-> 0]

CalledComparison(version1, version2) ==
  [IdleComparison EXCEPT !.pc = "called", !.version1 = version1,
                         !.version2 = version2]

\* The function awaits nothing: the call runs to its return in one step.
CompareVersions ==
  /\ compared.pc = "called"
  /\ compared' =
       [compared EXCEPT
          !.pc = "returned",
          !.result = compareVersions(compared.version1, compared.version2)]
  /\ UNCHANGED outsideComparison

(***************************************************************************)
(* getLatestMapVersion, upload-time policy.  The createdAt of a record is  *)
(* the text of a date: a local time with its offset from UTC, in hours,    *)
(* or a text that is no date.                                              *)
(***************************************************************************)
DateText(time, offset) == <<"date", time, offset>>
NoDateText == <<"text", 0, 0>>

\* new Date(text).getTime(): the instant, NaN for a text that is no date.
DateGetTime(text) ==
  IF text[1] = "date" THEN Decimal(text[2] - text[3], 0) ELSE NaN

\* isNaN
isNaN(n) == n.kind = "NaN"

CreatedAts == {DateText(1, 0), DateText(2, 0), DateText(3, 1), NoDateText}

\* What a file of the directory may be: a file that is no .json file, a
\* .json file that cannot be read or parsed, a record with its createdAt.
DatedFileKinds ==
  {[json |-> FALSE, complete |-> TRUE, createdAt |-> DateText(3, 0)],
   [json |-> TRUE, complete |-> FALSE, createdAt |-> NoDateText]}
    \cup {[json |-> TRUE, complete |-> TRUE, createdAt |-> c] :
            c \in CreatedAts}

DatedFile(i, kind) ==
  [name    |-> <<DecimalDigits[i + 1]>> \o (IF kind.json THEN JsonExt ELSE TmpExt),
   content |-> IF kind.complete
                 THEN [complete |-> TRUE,
                       text |-> JSONstringify(
                                  [StoredRecord(i, DefaultVersion) EXCEPT
                                     !.createdAt = kind.createdAt,
                                     !.updatedAt = kind.createdAt])]
                 ELSE [complete |-> FALSE, text |-> <<>>]]

DatedListings ==
  UNION {{[i \in 1..n |-> DatedFile(i, kinds[i])] :
            kinds \in [1..n -> DatedFileKinds]} : n \in 0..MaxFiles}

\* A comparison that lets an equal upload time replace the running latest.
IsAfterOrAt(uploadTime, latestUploadTime) ==
  ~Greater(latestUploadTime, uploadTime)

\* uploadTime > latestUploadTime
IsAfter(uploadTime, latestUploadTime) == Greater(uploadTime, latestUploadTime)

IdleLatestUpload ==
  [pc               |-> "idle",
   files            |-> <<>>,
   listed           |-> FALSE,
   jsonFiles        |-> <<>>,
   index            |-> 1,
   latestMetadata   |-> <<>>,
   latestUploadTime |-> <<>>,
   result           |-> <<>>,
   thrown           |-> NoError]

CalledLatestUpload(files) ==
  [IdleLatestUpload EXCEPT !.pc = "readdir", !.files = files]

\* The loop is left: the running latest is returned, or there is none.
AfterUploadsLoop(l) ==
  IF l.index <= Len(l.jsonFiles) THEN l
  ELSE IF l.latestMetadata = <<>> \/ l.latestUploadTime = <<>>
    THEN [l EXCEPT !.pc = "thrown", !.thrown = "No valid metadata found"]
    ELSE [l EXCEPT !.pc = "returned", !.result = l.latestMetadata]

\* readdir has listed the directory: the .json files are kept and the loop
\* stands at the first readFile.
AfterReaddirUploads(l) ==
  LET jsonFiles == filter(l.files, JsonExt)
  IN  IF Len(jsonFiles) = 0
        THEN [l EXCEPT !.pc = "thrown", !.listed = TRUE,
                       !.thrown = "No map metadata files found"]
        ELSE [l EXCEPT !.pc = "readFile", !.listed = TRUE,
                       !.jsonFiles = jsonFiles]

\* An iteration that lets the failure to read or parse a file end the call.
AfterReadUploadFileOrFail(l) ==
  LET file       == l.jsonFiles[l.index]
      metadata   == JSONparse(file.content.text)
      uploadTime == DateGetTime(metadata.createdAt)
      replaces   == /\ ~isNaN(uploadTime)
                    /\ \/ l.latestMetadata = <<>>
                       \/ l.latestUploadTime = <<>>
                       \/ Greater(uploadTime, l.latestUploadTime[1])
  IN  IF ~file.content.complete
        THEN [l EXCEPT !.pc = "thrown", !.thrown = "Unexpected end of JSON input"]
        ELSE AfterUploadsLoop(
               [l EXCEPT
                  !.index = @ + 1,
                  !.latestMetadata = IF replaces THEN <<metadata>> ELSE @,
                  !.latestUploadTime = IF replaces THEN <<uploadTime>> ELSE @])

\* An iteration of the loop: a file that cannot be read or parsed and a
\* record whose createdAt is no date are skipped; another record replaces
\* the running latest when there is none or when it was uploaded after it.
AfterReadUploadFile(l) ==
  LET file       == l.jsonFiles[l.index]
      metadata   == JSONparse(file.content.text)
      uploadTime == DateGetTime(metadata.createdAt)
      skipped    == ~file.content.complete \/ isNaN(uploadTime)
      replaces   == /\ ~skipped
                    /\ \/ l.latestMetadata = <<>>
                       \/ l.latestUploadTime = <<>>
                       \/ IsAfter(uploadTime, l.latestUploadTime[1])
  IN  AfterUploadsLoop(
        [l EXCEPT
           !.index = @ + 1,
           !.latestMetadata = IF replaces THEN <<metadata>> ELSE @,
           !.latestUploadTime = IF replaces THEN <<uploadTime>> ELSE @])

\* readdir settles.
ReaddirUploads ==
  /\ latestUpload.pc = "readdir"
  /\ \E fails \in BOOLEAN :
       latestUpload' =
         IF fails
           THEN [latestUpload EXCEPT !.pc = "thrown", !.thrown = "ENOENT"]
           ELSE AfterReaddirUploads(latestUpload)
  /\ UNCHANGED outsideLatestUpload

\* readFile of the file the loop stands at settles.
ReadUploadFile ==
  /\ latestUpload.pc = "readFile"
  /\ latestUpload' = AfterReadUploadFile(latestUpload)
  /\ UNCHANGED outsideLatestUpload

(***************************************************************************)
(* The download: MapController.downloadMap, MapService.streamMap, the read *)
(* stream over the artifact and the response it is piped to.  An action is *)
(* a handler of the event loop: the continuation of an await, or the       *)
(* listeners of one event of a stream.  Times are in milliseconds.         *)
(***************************************************************************)
\* The size of a buffer of the read stream.
HighWaterMark == 64 * 1024

\* The response buffers what the socket has not taken; write() returns
\* false from this much on.
DestHighWaterMark == 16 * 1024

\* The sizes of the artifact: empty, less than a buffer, one buffer, some
\* buffers and a rest, and buffers enough for steps of progress under 5%.
ArtifactSizes ==
  {0, 100, HighWaterMark, 2 * HighWaterMark + 100, 24 * HighWaterMark}

\* The readings of Date.now() after the start of the stream.
ClockReadings == {0, 400, 5000, 10000, 10400}

\* A number that is the quotient of two others, kept as the quotient.
Quotient(num, den) == [kind |-> "quotient", num |-> num, den |-> den]

\* x > 0 for a number or a quotient of integers; NaN and undefined are not.
IsPositive(x) ==
  IF x.kind = "quotient"
    THEN (x.num > 0 /\ x.den > 0) \/ (x.num < 0 /\ x.den < 0)
    ELSE x.kind = "number" /\ x.value > 0

\* x < bound for a number; NaN is below nothing.
IsBelow(x, bound) == x.kind = "number" /\ x.scale = 0 /\ x.value < bound

\* Math.round((bytesTransferred / totalSize) * 100): NaN of 0 / 0.
Progress(bytesTransferred, totalSize) ==
  IF totalSize = 0 THEN NaN
  ELSE Decimal(MathRound(bytesTransferred * 100, totalSize), 0)

\* elapsedTime > 0 ? bytesTransferred / elapsedTime : 0, in bytes by the
\* millisecond.
Throughput(bytesTransferred, elapsedTime) ==
  IF elapsedTime > 0 THEN Quotient(bytesTransferred, elapsedTime)
                     ELSE Decimal(0, 0)

\* An estimate of zero where the code gives none.
EstimateOrZero(bytesTransferred, totalSize, elapsedTime) ==
  IF /\ IsPositive(Throughput(bytesTransferred, elapsedTime))
     /\ IsBelow(Progress(bytesTransferred, totalSize), 100)
    THEN Quotient(totalSize - bytesTransferred,
                  Throughput(bytesTransferred, elapsedTime))
    ELSE Decimal(0, 0)

\* estimatedTimeRemaining: remainingBytes / speedBytesPerSecond when
\* speedBytesPerSecond > 0 && progress < 100, and undefined otherwise.
Estimate(bytesTransferred, totalSize, elapsedTime) ==
  IF /\ IsPositive(Throughput(bytesTransferred, elapsedTime))
     /\ IsBelow(Progress(bytesTransferred, totalSize), 100)
    THEN Quotient(totalSize - bytesTransferred,
                  Throughput(bytesTransferred, elapsedTime))
    ELSE JsUndefined

\* MetricsCalculator.calculateTransferMetrics.  Of nothing transferred of
\* nothing the progress is NaN.
calculateTransferMetrics(bytesTransferred, totalSize, startTime, currentTime) ==
  [bytesTransferred       |-> bytesTransferred,
   totalSize              |-> totalSize,
   progress               |-> Progress(bytesTransferred, totalSize),
   speed                  |-> Quotient(
                                Throughput(bytesTransferred,
                                           currentTime - startTime),
                                1024 * 1024),
   elapsedTime            |-> currentTime - startTime,
   estimatedTimeRemaining |-> Estimate(bytesTransferred, totalSize,
                                       currentTime - startTime),
   throughput             |-> Throughput(bytesTransferred,
                                         currentTime - startTime)]

\* The quotient of two numbers that are not negative, as the division of
\* JavaScript gives it: by 0 it is Infinity, and NaN of 0 by 0.
Infinity == [kind |-> "Infinity", value |-> 0, scale |-> 0]

Divide(num, den) ==
  IF den # 0 THEN Quotient(num, den)
  ELSE IF num = 0 THEN NaN ELSE Infinity

\* x / den for a divisor that is not 0.
DividedBy(x, den) == IF x.kind = "quotient" THEN Quotient(x, den) ELSE x

\* MetricsCalculator.calculateNetworkMetrics; throughputMbps is
\* throughputBps * 8 / (1024 * 1024).  Times are in milliseconds.
calculateNetworkMetrics(bytesTransferred, elapsedTime, packetCount) ==
  [throughputMbps   |-> DividedBy(Divide(bytesTransferred, elapsedTime),
                                  (1024 * 1024) \div 8),
   avgPacketSize    |-> IF packetCount > 0
                          THEN Divide(bytesTransferred, packetCount)
                          ELSE JsUndefined,
   packetsPerSecond |-> IF packetCount > 0
                          THEN Divide(packetCount, elapsedTime)
                          ELSE JsUndefined]

\* A test that also holds within the bucket of the last event.
shouldLogProgressWithinBucket(progress, lastLoggedProgress, logInterval) ==
  (progress \div logInterval) >= (lastLoggedProgress \div logInterval)

\* MetricsCalculator.shouldLogProgress
shouldLogProgress(progress, lastLoggedProgress, logInterval) ==
  (progress \div logInterval) > (lastLoggedProgress \div logInterval)

\* logInterval: number = 10
DefaultLogInterval == 10

\* The test on the time without the test that the progress has moved.
TenSecondsAlone(elapsedTime, progress, lastLoggedProgress) ==
  /\ elapsedTime > 0
  /\ (elapsedTime \div 1000) % 10 = 0

\* metrics.elapsedTime > 0 && Math.floor(metrics.elapsedTime) % 10 === 0
\*   && metrics.progress > lastLoggedProgress
TenSecondsAndMoved(elapsedTime, progress, lastLoggedProgress) ==
  /\ elapsedTime > 0
  /\ (elapsedTime \div 1000) % 10 = 0
  /\ progress > lastLoggedProgress

\* A count of every buffer as a full one.
FullBuffer(chunk) == HighWaterMark

\* Buffer.byteLength(chunk): a chunk is known by its length.
byteLength(chunk) == chunk

\* ((bytesRead / totalSize) * 100).toFixed(2), in hundredths; the quotient
\* is taken two digits at a time to stay within 32 bits.
Efficiency(bytesRead, totalSize) ==
  IF totalSize = 0 THEN NaN
  ELSE LET whole    == bytesRead \div totalSize
           percents == ((bytesRead % totalSize) * 100) \div totalSize
           rest     == ((bytesRead % totalSize) * 100) % totalSize
       IN  Decimal(whole * 10000 + percents * 100
                     + MathRound(rest * 100, totalSize), 2)

\* A write that never reports a full buffer.
NeverFull(buffered) == TRUE

\* The value of res.write(chunk): false when the buffer has reached its
\* high-water mark.
WriteReturns(buffered) == buffered < DestHighWaterMark

\* A failure of the stream reported as a missing file.
RejectsAsNotFound(error) == "Map file not found"

\* reject(error) of the promise streamMap has returned: the rejection
\* passes by the catch of streamMap.
Rejects(error) == error

NoProgressEvent ==
  [progress |-> 0, bytesRead |-> 0, packetCount |-> 0, elapsedTime |-> 0,
   lastLoggedProgress |-> 0, lastLoggedElapsed |-> 0,
   networkMetrics |-> calculateNetworkMetrics(0, 1, 0)]

IdleDownload ==
  [pc                 |-> "idle",
   mapId              |-> 0,
   now                |-> 0,
   totalSize          |-> 0,
   startTime          |-> 0,
   bytesRead          |-> 0,
   packetCount        |-> 0,
   lastLoggedProgress |-> 0,
   lastLoggedElapsed  |-> 0,
   reader             |-> "none",
   offset             |-> 0,
   buffers            |-> 0,
   fdOpen             |-> FALSE,
   piped              |-> FALSE,
   dest               |-> "open",
   buffered           |-> 0,
   accepted           |-> 0,
   needDrain          |-> FALSE,
   headersSent        |-> FALSE,
   progressEvents     |-> 0,
   lastProgressEvent  |-> NoProgressEvent,
   finalEvents        |-> <<>>,
   progressAfterFinal |-> FALSE,
   promise            |-> "pending",
   thrown             |-> NoError,
   status             |-> 200]

\* downloadMap has set the headers and called streamMap, which awaits stat.
CalledDownload(mapId) == [IdleDownload EXCEPT !.pc = "stat", !.mapId = mapId]

\* The storage a download finds: the artifact of the id there or not, of
\* some size, and its metadata record there or not.
DownloadStorage ==
  /\ dirs = {"base", "metadata"}
  /\ \E f \in {NoFile} \cup {[exists |-> TRUE, len |-> s] : s \in ArtifactSizes} :
       mapFile = [id \in MapIds |-> IF id = 1 THEN f ELSE NoFile]
  /\ \E m \in {NoMeta,
               [exists |-> TRUE, complete |-> TRUE,
                text |-> JSONstringify(StoredRecord(1, DefaultVersion))]} :
       metaFile = [id \in MapIds |-> IF id = 1 THEN m ELSE NoMeta]
  /\ up = [p \in Uploaders |-> IdleUpload]
  /\ clock = 0

\* stat settles.  Without the file streamMap throws; with it the stream is
\* created, the listeners are set, the stream is piped to the response and
\* the promise is returned.
Stat ==
  /\ download.pc = "stat"
  /\ download' =
       IF ~mapFile[download.mapId].exists
         THEN [download EXCEPT !.pc = "settled",
                               !.promise = "rejected",
                               !.thrown = "Map file not found"]
         ELSE [download EXCEPT !.pc = "streaming",
                               !.totalSize = mapFile[download.mapId].len,
                               !.startTime = download.now,
                               !.reader = "flowing",
                               !.fdOpen = TRUE,
                               !.piped = TRUE]
  /\ UNCHANGED outsideDownload

\* The stream emits a buffer.  The listener of streamMap counts it and logs
\* the progress when it is due; the listener of the pipe writes it to the
\* response and pauses the stream when write() returns false.
ReaderData ==
  /\ download.pc = "streaming"
  /\ download.reader = "flowing"
  /\ download.offset < mapFile[download.mapId].len
  /\ \E now \in ClockReadings :
       /\ now >= download.now
       /\ LET chunk       == Min(HighWaterMark,
                                 mapFile[download.mapId].len - download.offset)
              bytesRead   == download.bytesRead + byteLength(chunk)
              packetCount == download.packetCount + 1
              metrics     == calculateTransferMetrics(
                               bytesRead, download.totalSize,
                               download.startTime, now)
              progress    == metrics.progress.value
              logs        == \/ shouldLogProgress(
                                  progress, download.lastLoggedProgress, 5)
                             \/ TenSecondsAndMoved(
                                  metrics.elapsedTime, progress,
                                  download.lastLoggedProgress)
              buffered    == download.buffered + chunk
              full        == ~WriteReturns(buffered)
              counted     ==
                [download EXCEPT
                   !.now = now,
                   !.offset = @ + chunk,
                   !.buffers = @ + 1,
                   !.bytesRead = bytesRead,
                   !.packetCount = packetCount,
                   !.buffered = buffered,
                   !.headersSent = TRUE,
                   !.needDrain = @ \/ full,
                   !.reader = IF full THEN "paused" ELSE @]
          IN  download' =
                IF logs
                  THEN [counted EXCEPT
                          !.progressEvents = @ + 1,
                          !.lastProgressEvent =
                             [progress           |-> progress,
                              bytesRead          |-> metrics.bytesTransferred,
                              packetCount        |-> packetCount,
                              elapsedTime        |-> metrics.elapsedTime,
                              lastLoggedProgress |-> download.lastLoggedProgress,
                              lastLoggedElapsed  |-> download.lastLoggedElapsed,
                              networkMetrics     |->
                                calculateNetworkMetrics(
                                  bytesRead, metrics.elapsedTime, packetCount)],
                          !.progressAfterFinal = download.finalEvents # <<>>,
                          !.lastLoggedProgress = progress,
                          !.lastLoggedElapsed = metrics.elapsedTime]
                  ELSE counted
  /\ UNCHANGED outsideDownload

\* The socket takes what the response has buffered; after a write that
\* returned false the response emits drain and the pipe resumes the stream.
DestDrain ==
  /\ download.dest \in {"open", "ended"}
  /\ download.buffered > 0
  /\ download' =
       [download EXCEPT
          !.accepted = @ + download.buffered,
          !.buffered = 0,
          !.needDrain = FALSE,
          !.reader = IF download.needDrain /\ download.piped /\ @ = "paused"
                       THEN "flowing" ELSE @]
  /\ UNCHANGED outsideDownload

\* The stream has read the file to its end: the summary is logged and the
\* promise resolved, the pipe ends the response, the file is closed.
ReaderEnd ==
  /\ download.pc = "streaming"
  /\ download.reader = "flowing"
  /\ download.offset = mapFile[download.mapId].len
  /\ \E now \in ClockReadings :
       /\ now >= download.now
       /\ LET finalMetrics == calculateTransferMetrics(
                                download.bytesRead, download.totalSize,
                                download.startTime, now)
          IN  download' =
                [download EXCEPT
                   !.pc = "settled",
                   !.promise = "resolved",
                   !.now = now,
                   !.reader = "ended",
                   !.fdOpen = FALSE,
                   !.piped = FALSE,
                   !.dest = "ended",
                   !.headersSent = TRUE,
                   !.finalEvents = Append(@,
                      [action       |-> "download_complete",
                       totalSize    |-> finalMetrics.totalSize,
                       totalPackets |-> download.packetCount,
                       elapsedTime  |-> finalMetrics.elapsedTime,
                       progress     |-> finalMetrics.progress,
                       networkMetrics |->
                         calculateNetworkMetrics(
                           download.bytesRead, finalMetrics.elapsedTime,
                           download.packetCount),
                       efficiency   |-> Efficiency(download.bytesRead,
                                                   download.totalSize)])]
  /\ UNCHANGED outsideDownload

\* A read of the stream fails: the error is logged with what was read so
\* far and the promise rejected; the stream is destroyed and its file
\* closed.  The response is left as it is.
ReaderError ==
  /\ download.pc = "streaming"
  /\ download.reader = "flowing"
  /\ \E now \in ClockReadings :
       /\ now >= download.now
       /\ LET errorMetrics == calculateTransferMetrics(
                                download.bytesRead, download.totalSize,
                                download.startTime, now)
          IN  download' =
                [download EXCEPT
                   !.pc = "settled",
                   !.promise = "rejected",
                   !.thrown = Rejects("EIO"),
                   !.now = now,
                   !.reader = "errored",
                   !.fdOpen = FALSE,
                   !.piped = FALSE,
                   !.finalEvents = Append(@,
                      [action               |-> "download_error",
                       error                |-> "EIO",
                       bytesReadBeforeError |-> errorMetrics.bytesTransferred,
                       progressBeforeError  |-> errorMetrics.progress,
                       packetCount          |-> download.packetCount])]
  /\ UNCHANGED outsideDownload

\* The client goes away, or the response fails, while the stream is piped
\* to it: the pipe unpipes itself, which pauses the stream.  streamMap and
\* downloadMap have no listener on the response.
DestClose ==
  /\ download.pc = "streaming"
  /\ download.dest = "open"
  /\ download.reader \in {"flowing", "paused"}
  /\ \E event \in {"closed", "errored"} :
       download' = [download EXCEPT !.dest = event,
                                    !.piped = FALSE,
                                    !.reader = "paused"]
  /\ UNCHANGED outsideDownload

\* downloadMap goes on after its await: it logs the success, or answers
\* 500 to a failure when no header has been sent yet.
ControllerSettled ==
  /\ download.pc = "settled"
  /\ download' =
       [download EXCEPT
          !.pc = "done",
          !.status = IF download.promise = "rejected" /\ ~download.headersSent
                       THEN 500 ELSE @,
          !.headersSent = @ \/ download.promise = "rejected"]
  /\ UNCHANGED outsideDownload

(***************************************************************************)
(* MetricsCalculator: a call of calculateTransferMetrics or of             *)
(* shouldLogProgress on its own.                                           *)
(***************************************************************************)
\* The arguments tried: nothing, a part, a part that rounds to the whole,
\* the whole and more than the whole of a size, a size of 0, and a current
\* time at, after and before the start.
TransferredBytes == {0, 1, 50, 199, 200, 250}
TotalSizes       == {0, 1, 200}
StartTimes       == {0, 1000}
CurrentTimes     == {0, 1000, 2000}

\* Progress values, and intervals: the default, 10 and 5 as the callers
\* give, and 1.
ProgressValues == {0, 4, 5, 9, 10, 19, 20, 24, 29, 30, 99, 100}
LogIntervals   == {JsUndefined, Decimal(10, 0), Decimal(5, 0), Decimal(1, 0)}

NoMetrics == calculateTransferMetrics(0, 0, 0, 0)

IdleMeasure ==
  [pc     |-> "idle",
   fn     |-> "none",
   args   |-> <<>>,
   metrics |-> NoMetrics,
   should |-> FALSE]

CalledMeasure(fn, args) ==
  [IdleMeasure EXCEPT !.pc = "called", !.fn = fn, !.args = args]

\* The call of calculateTransferMetrics returns.
CalculateTransferMetrics ==
  /\ measured.pc = "called"
  /\ measured.fn = "calculateTransferMetrics"
  /\ measured' =
       [measured EXCEPT
          !.pc = "returned",
          !.metrics = calculateTransferMetrics(
                        measured.args[1], measured.args[2],
                        measured.args[3], measured.args[4])]
  /\ UNCHANGED outsideMeasured

\* The call of shouldLogProgress returns; an interval that is not given is
\* the default.
ShouldLogProgress ==
  /\ measured.pc = "called"
  /\ measured.fn = "shouldLogProgress"
  /\ measured' =
       [measured EXCEPT
          !.pc = "returned",
          !.should = shouldLogProgress(
                       measured.args[1], measured.args[2],
                       IF measured.args[3] = JsUndefined
                         THEN DefaultLogInterval
                         ELSE measured.args[3].value)]
  /\ UNCHANGED outsideMeasured

(***************************************************************************)
(* The specifications.  Spec is the storage under concurrent uploads;      *)
(* DiffSpec is a call of findChangedTiles on any two manifests;            *)
(* LatestSpec is a call of getLatestMapVersion over any directory listing. *)
(***************************************************************************)
\* No call but the uploads.
Init ==
  /\ UploadInit
  /\ diff = IdleDiff
  /\ latest = IdleLatest
  /\ compared = IdleComparison
  /\ latestUpload = IdleLatestUpload
  /\ download = IdleDownload
  /\ measured = IdleMeasure

Next ==
  \/ \E p \in Uploaders, r \in UploadRequests : UploadStart(p, r)
  \/ \E p \in Uploaders :
       \/ MkdirBase(p) \/ MkdirMetadata(p) \/ OpenFile(p) \/ WriteChunk(p)
       \/ CloseFile(p) \/ WriteFileDirect(p) \/ WriteMetadata(p)
       \/ UnlinkMap(p) \/ UnlinkMetadata(p)

Spec == Init /\ [][Next]_vars

DiffInit ==
  /\ UploadInit
  /\ diff \in CalledDiffs
  /\ latest = IdleLatest
  /\ compared = IdleComparison
  /\ latestUpload = IdleLatestUpload
  /\ download = IdleDownload
  /\ measured = IdleMeasure

DiffNext == FindChangedTiles

DiffSpec == DiffInit /\ [][DiffNext]_vars

\* One call of getLatestMapVersion, under either policy.
LatestInit ==
  /\ UploadInit
  /\ diff = IdleDiff
  /\ compared = IdleComparison
  /\ download = IdleDownload
  /\ measured = IdleMeasure
  /\ \/ latest \in CalledLatests /\ latestUpload = IdleLatestUpload
     \/ /\ latest = IdleLatest
        /\ \E files \in DatedListings :
             latestUpload = CalledLatestUpload(files)

LatestNext == Readdir \/ ReadFile \/ ReaddirUploads \/ ReadUploadFile

LatestSpec == LatestInit /\ [][LatestNext]_vars

CompareInit ==
  /\ UploadInit
  /\ diff = IdleDiff
  /\ latest = IdleLatest
  /\ \/ \E version1 \in VersionStrings, version2 \in VersionStrings :
          compared = CalledComparison(version1, version2)
     \/ \E pair \in VersionPairs :
          compared = CalledComparison(pair[1], pair[2])
  /\ latestUpload = IdleLatestUpload
  /\ download = IdleDownload
  /\ measured = IdleMeasure

CompareNext == CompareVersions

CompareSpec == CompareInit /\ [][CompareNext]_vars

\* One download of the map 1, whatever the storage holds of it.
DownloadInit ==
  /\ DownloadStorage
  /\ diff = IdleDiff
  /\ latest = IdleLatest
  /\ compared = IdleComparison
  /\ latestUpload = IdleLatestUpload
  /\ download = CalledDownload(1)
  /\ measured = IdleMeasure

DownloadNext ==
  \/ Stat \/ ReaderData \/ DestDrain \/ ReaderEnd \/ ReaderError
  \/ DestClose \/ ControllerSettled

DownloadSpec == DownloadInit /\ [][DownloadNext]_vars

\* The handlers of the event loop run when they can, and the socket takes
\* what is buffered for it; a failing read and a client that goes away are
\* up to the environment.
DownloadFairness ==
  /\ WF_vars(Stat)
  /\ WF_vars(ReaderData)
  /\ WF_vars(ReaderEnd)
  /\ WF_vars(DestDrain)
  /\ WF_vars(ControllerSettled)

DownloadLiveSpec == DownloadSpec /\ DownloadFairness

\* One call of a function of MetricsCalculator.
MetricsInit ==
  /\ UploadInit
  /\ diff = IdleDiff
  /\ latest = IdleLatest
  /\ compared = IdleComparison
  /\ latestUpload = IdleLatestUpload
  /\ download = IdleDownload
  /\ \/ \E bytesTransferred \in TransferredBytes, totalSize \in TotalSizes,
            startTime \in StartTimes, currentTime \in CurrentTimes :
          measured = CalledMeasure("calculateTransferMetrics",
                       <<bytesTransferred, totalSize, startTime, currentTime>>)
     \/ \E progress \in ProgressValues, lastLoggedProgress \in ProgressValues,
            logInterval \in LogIntervals :
          measured = CalledMeasure("shouldLogProgress",
                       <<progress, lastLoggedProgress, logInterval>>)

MetricsNext == CalculateTransferMetrics \/ ShouldLogProgress

MetricsSpec == MetricsInit /\ [][MetricsNext]_vars


(***************************************************************************)
(* The claims on the upload transaction.                                   *)
(***************************************************************************)
\* The errors of the stages after the id is generated.
StageErrors ==
  {"MkdirError", "InvalidFileType", "OpenError", "WriteError",
   "ChecksumError", "MetadataWriteError"}

\* The errors of a failure after the artifact is written and before the
\* metadata record is persisted.
ErrorsAfterWrite == {"ChecksumError", "MetadataWriteError"}

\* C1: an upload in which a stage fails goes through the cleanup and nowhere
\* else; when it has failed, the unlink of its artifact and the unlink of
\* its metadata file have both been attempted, and the error it throws is
\* the error of the stage, whatever the unlinks did.
C1_CleanupAttemptedAndErrorKept ==
  \A p \in Uploaders :
    LET u == up[p]
    IN  /\ u.error # NoError =>
             /\ u.error \in StageErrors
             /\ u.pc \in {"unlinkMap", "unlinkMetadata", "failed"}
             /\ ~u.returned
        /\ u.pc = "unlinkMetadata" => u.unlinkedMap
        /\ u.pc = "failed" =>
             /\ u.unlinkedMap /\ u.unlinkedMeta
             /\ u.error # NoError
             /\ u.thrown = u.error

\* A failed metadata write whose two unlinks both failed: the files are
\* still there, and the error thrown is the write's.
C1_Witness ==
  \E p \in Uploaders :
    /\ up[p].pc = "failed"
    /\ up[p].thrown = "MetadataWriteError"
    /\ mapFile[up[p].mapId].exists
    /\ metaFile[up[p].mapId].exists

\* C2: once an upload has met an error after its artifact was written and
\* before its record was persisted, getMapMetadata of its id reports not
\* found, in every state from then on; and when the upload has failed, the
\* unlink of the artifact has been attempted.
C2_NotFoundAfterLateFailure ==
  \A p \in Uploaders :
    up[p].error \in ErrorsAfterWrite =>
      /\ Completed(up[p], "write")
      /\ ~getMapMetadata(up[p].mapId).ok
      /\ up[p].pc = "failed" => up[p].unlinkedMap

\* An upload failed at the metadata write, the text cut short still on the
\* disk, while a later upload has completed.
C2_Witness ==
  \E p, q \in Uploaders :
    /\ up[p].pc = "failed"
    /\ up[p].error = "MetadataWriteError"
    /\ metaFile[up[p].mapId].exists
    /\ up[q].pc = "done"

\* C3 (as claimed): an upload under a name that is no .mbtiles name fails
\* with the invalid-file-type error, and its artifact path never holds a
\* byte.
C3_InvalidTypeRejected ==
  \A p \in Uploaders :
    (up[p].pc # "idle" /\ ~ValidFileType(up[p].originalFilename)) =>
      /\ ~mapFile[up[p].mapId].exists
      /\ up[p].pc # "done"
      /\ up[p].pc = "failed" => up[p].thrown = "InvalidFileType"

\* C4: the record a completed upload returned is the record getMapMetadata
\* gives for its id, field for field, in every state from then on.
C4_PersistThenGet ==
  \A p \in Uploaders :
    up[p].pc = "done" =>
      /\ getMapMetadata(up[p].mapId).ok
      /\ getMapMetadata(up[p].mapId).value = up[p].metadata

\* A completed upload with defaulted fields, read back while another upload
\* has failed and been rolled back.
C4_Witness ==
  \E p, q \in Uploaders :
    /\ up[p].pc = "done"
    /\ up[p].metadata.version = DefaultVersion
    /\ getMapMetadata(up[p].mapId).value.checksum = up[p].metadata.checksum
    /\ up[q].pc = "failed"

\* C5: when an upload has completed, by chunks or by one write, the bytes
\* written to its artifact add up to the length of the buffer, the artifact
\* is that long, and the size of the persisted record is that length.
C5_BytesWrittenEqualLength ==
  \A p \in Uploaders :
    up[p].pc = "done" =>
      /\ SumSeq(up[p].writes) = up[p].fileBuffer.length
      /\ mapFile[up[p].mapId].exists
      /\ mapFile[up[p].mapId].len = up[p].fileBuffer.length
      /\ getMapMetadata(up[p].mapId).ok
      /\ getMapMetadata(up[p].mapId).value.size = up[p].fileBuffer.length

\* A chunked upload and a direct one, both completed.
C5_Witness ==
  \E p, q \in Uploaders :
    /\ up[p].pc = "done" /\ up[p].writePath = "chunked"
    /\ Len(up[p].writes) = 11
    /\ up[q].pc = "done" /\ up[q].writePath = "direct"

\* The writes of a chunked artifact: chunks of ChunkSize one after the
\* other, the last one the rest of the buffer.
InChunks(u) ==
  LET n == Len(u.writes)
  IN  /\ n >= 1
      /\ \A k \in 1..(n - 1) : u.writes[k] = ChunkSize
      /\ u.writes[n] = u.fileBuffer.length - (n - 1) * ChunkSize
      /\ u.writes[n] >= 1 /\ u.writes[n] <= ChunkSize

\* C6 (as claimed): a written payload was written in chunks if and only if
\* its length is at or above the threshold.
C6_ChunkedFromThreshold ==
  \A p \in Uploaders :
    Completed(up[p], "write") =>
      IF up[p].fileBuffer.length >= ChunkThreshold
        THEN up[p].writePath = "chunked" /\ InChunks(up[p])
        ELSE up[p].writePath = "direct"
             /\ up[p].writes = <<up[p].fileBuffer.length>>

\* C6 (amended): a written payload was written in chunks if and only if its
\* length is above the threshold; a payload of the threshold's length or
\* less was written in one operation.
C6_ChunkedAboveThreshold ==
  \A p \in Uploaders :
    Completed(up[p], "write") =>
      IF up[p].fileBuffer.length > ChunkThreshold
        THEN up[p].writePath = "chunked" /\ InChunks(up[p])
        ELSE up[p].writePath = "direct"
             /\ up[p].writes = <<up[p].fileBuffer.length>>

\* A payload of the threshold's length written in one operation, beside one
\* written in chunks.
C6_Witness ==
  \E p, q \in Uploaders :
    /\ Completed(up[p], "write")
    /\ up[p].fileBuffer.length = ChunkThreshold
    /\ up[p].writes = <<ChunkThreshold>>
    /\ Completed(up[q], "write")
    /\ up[q].writePath = "chunked"

(***************************************************************************)
(* The claims on the tile diff (DiffSpec).                                 *)
(***************************************************************************)
\* The keys of a tileChecksums map.
KeysOf(tileChecksums) ==
  {tileChecksums[i][1] : i \in 1..Len(tileChecksums)}

\* The keys of current whose checksum on the client side differs or is
\* absent.
MismatchingKeys(d) ==
  {k \in KeysOf(d.currentMetadata.tileChecksums) :
     ChecksumAt(d.clientMetadata.tileChecksums, k)
       # ChecksumAt(d.currentMetadata.tileChecksums, k)}

BothCarryTileChecksums(d) ==
  d.currentMetadata.hasTileChecksums /\ d.clientMetadata.hasTileChecksums

\* C7: when both manifests carry a tileChecksums map, the diff holds exactly
\* one update for each key of current whose checksum on the client side
\* differs or is absent, with current's checksum for that key, and no update
\* for any other key: not for a key that only the client has, and none at
\* all when the two manifests are the same.
C7_OneUpdatePerMismatch ==
  (diff.pc = "returned" /\ BothCarryTileChecksums(diff)) =>
    /\ Len(diff.changedTiles) = Len(diff.keys)
    /\ \A k \in MismatchingKeys(diff) :
         Cardinality({i \in 1..Len(diff.keys) : diff.keys[i] = k}) = 1
    /\ \A i \in 1..Len(diff.keys) :
         /\ diff.keys[i] \in MismatchingKeys(diff)
         /\ diff.changedTiles[i].checksum
              = ChecksumAt(diff.currentMetadata.tileChecksums, diff.keys[i])
    /\ \A k \in KeysOf(diff.clientMetadata.tileChecksums)
                  \ KeysOf(diff.currentMetadata.tileChecksums) :
         \A i \in 1..Len(diff.keys) : diff.keys[i] # k
    /\ diff.currentMetadata = diff.clientMetadata => diff.changedTiles = <<>>

\* A diff of two manifests that has reported a key the client lacks and a
\* key whose checksum differs, and has passed over a key only the client
\* has.
C7_Witness ==
  /\ diff.pc = "returned"
  /\ BothCarryTileChecksums(diff)
  /\ Len(diff.changedTiles) = 2
  /\ \E i \in 1..2 :
       ChecksumAt(diff.clientMetadata.tileChecksums, diff.keys[i]) = Undefined
  /\ \E i \in 1..2 :
       ChecksumAt(diff.clientMetadata.tileChecksums, diff.keys[i]) # Undefined
  /\ KeysOf(diff.clientMetadata.tileChecksums)
       \ KeysOf(diff.currentMetadata.tileChecksums) # {}

\* C8: when current or the client carries no tileChecksums map, the diff is
\* empty, whatever the other side holds.
C8_EmptyWithoutTileChecksums ==
  (diff.pc = "returned" /\ ~BothCarryTileChecksums(diff)) =>
    diff.changedTiles = <<>>

\* A diff of a current manifest with tiles against a client without a map,
\* and the other way round.
C8_Witness ==
  /\ diff.pc = "returned"
  /\ diff.changedTiles = <<>>
  /\ \/ /\ ~diff.clientMetadata.hasTileChecksums
        /\ Len(diff.currentMetadata.tileChecksums) = MaxTiles
     \/ /\ ~diff.currentMetadata.hasTileChecksums
        /\ Len(diff.clientMetadata.tileChecksums) = MaxTiles

\* The text of an integer: digits after an optional sign.
IsIntegerText(s) ==
  LET digits == IF s # <<>> /\ s[1] \in {"-", "+"} THEN Tail(s) ELSE s
  IN  digits # <<>> /\ IsDigits(digits)

\* A key that is three integers separated by "/".
IsTileKey(key) ==
  LET parts == split(key, "/")
  IN  Len(parts) = 3 /\ \A i \in 1..3 : IsIntegerText(parts[i])

\* C9: a key of current that is not three integers separated by "/" and
\* whose checksum mismatches is skipped (the diff never fails), and no
\* update of the diff has a z, x or y that is not an integer.
C9_MalformedKeySkipped ==
  diff.pc = "returned" =>
    \A i \in 1..Len(diff.keys) :
      /\ IsTileKey(diff.keys[i])
      /\ IsInteger(diff.changedTiles[i].z)
      /\ IsInteger(diff.changedTiles[i].x)
      /\ IsInteger(diff.changedTiles[i].y)

(***************************************************************************)
(* The claims on the latest version (LatestSpec).                          *)
(***************************************************************************)
\* The records of the .json files that parse, in listing order.
RECURSIVE RecordsOf(_)
RecordsOf(files) ==
  IF files = <<>> THEN <<>>
  ELSE (IF endsWith(files[1].name, JsonExt) /\ files[1].content.complete
          THEN <<JSONparse(files[1].content.text)>> ELSE <<>>)
       \o RecordsOf(Tail(files))

\* Every record carries a version string, as MapMetadata declares.
AllVersioned(records) ==
  \A i \in 1..Len(records) : records[i].version # Undefined

\* The first record whose version is not strictly less than any other's.
IsFirstMaximal(records, i) ==
  /\ \A j \in 1..Len(records) :
       compareVersions(records[i].version, records[j].version) >= 0
  /\ \A h \in 1..(i - 1) : \E j \in 1..Len(records) :
       compareVersions(records[h].version, records[j].version) < 0

NoValidRecords == {"No map metadata files found", "No valid metadata found"}

\* C10: over the records listed so far, the running latest is the first
\* record whose version is not strictly less than any other's, so that a
\* record replaces it only when strictly greater and the earliest of equal
\* versions wins; the call returns the running latest of the whole listing,
\* and fails with NoValidRecords when the listing holds no record.
C10_FirstMaximalByVersion ==
  LET seen    == RecordsOf(SubSeq(latest.jsonFiles, 1, latest.index - 1))
      records == RecordsOf(latest.files)
  IN  (latest.listed /\ AllVersioned(records)) =>
        /\ latest.pc = "readFile" =>
             IF seen = <<>> THEN latest.latestMetadata = <<>>
             ELSE \E i \in 1..Len(seen) :
                    /\ IsFirstMaximal(seen, i)
                    /\ latest.latestMetadata = <<seen[i]>>
        /\ latest.pc \in {"returned", "thrown"} =>
             IF records = <<>>
               THEN latest.pc = "thrown" /\ latest.thrown \in NoValidRecords
               ELSE /\ latest.pc = "returned"
                    /\ \E i \in 1..Len(records) :
                         /\ IsFirstMaximal(records, i)
                         /\ latest.result = <<records[i]>>

\* A listing whose first two records have equal versions that are not the
\* same string, followed by a lesser one: the first is returned.
C10_Witness ==
  LET records == RecordsOf(latest.files)
  IN  /\ latest.pc = "returned"
      /\ Len(records) = 3
      /\ records[1].version # records[2].version
      /\ compareVersions(records[1].version, records[2].version) = 0
      /\ compareVersions(records[3].version, records[1].version) < 0
      /\ latest.result = <<records[1]>>

\* A listing without any record fails, and so does an empty directory.
C10_WitnessEmpty ==
  /\ latest.pc = "thrown"
  /\ latest.listed
  /\ Len(latest.files) = MaxFiles
  /\ RecordsOf(latest.files) = <<>>

(***************************************************************************)
(* The claims on the version comparator (CompareSpec).                     *)
(***************************************************************************)
\* The integer a segment counts as: its value when it is the text of an
\* integer, 0 when it is anything else.
SegmentInteger(s) ==
  IF ~IsIntegerText(s) THEN 0
  ELSE IF s[1] = "-" THEN 0 - DigitsValue(Tail(s))
  ELSE IF s[1] = "+" THEN DigitsValue(Tail(s))
  ELSE DigitsValue(s)

\* The sign of the first pair of segments that differ, a segment that is
\* not there counting as 0; 0 when no pair differs.
SignOfFirstDifference(version1, version2) ==
  LET s1   == split(version1, ".")
      s2   == split(version2, ".")
      n    == IF Len(s1) > Len(s2) THEN Len(s1) ELSE Len(s2)
      a(i) == IF i <= Len(s1) THEN SegmentInteger(s1[i]) ELSE 0
      b(i) == IF i <= Len(s2) THEN SegmentInteger(s2[i]) ELSE 0
      differing == {i \in 1..n : a(i) # b(i)}
  IN  IF differing = {} THEN 0
      ELSE LET i == CHOOSE i \in differing : \A j \in differing : i <= j
           IN  IF a(i) > b(i) THEN 1 ELSE -1

\* A version without its trailing "0" segments (the first segment stays).
RECURSIVE WithoutTrailingZeros(_)
WithoutTrailingZeros(parts) ==
  IF Len(parts) > 1 /\ parts[Len(parts)] = <<"0">>
    THEN WithoutTrailingZeros(SubSeq(parts, 1, Len(parts) - 1))
    ELSE parts

\* C11: the comparator returns the sign of the first pair of "."-separated
\* segments that differ as integers, a missing or non-numeric segment
\* counting as 0, and 0 when none differs; so compare(a, b) = -compare(b, a),
\* 10 is above 2 in a segment, and versions that differ only in trailing
\* zero segments are equal.
C11_ComparatorBySegments ==
  compared.pc = "returned" =>
    /\ compared.result
         = SignOfFirstDifference(compared.version1, compared.version2)
    /\ compared.result
         = 0 - compareVersions(compared.version2, compared.version1)
    /\ (WithoutTrailingZeros(split(compared.version1, "."))
          = WithoutTrailingZeros(split(compared.version2, ".")))
         => compared.result = 0
    /\ (/\ compared.version1 = <<"1", ".", "1", "0", ".", "0">>
        /\ compared.version2 = <<"1", ".", "2", ".", "0">>)
         => compared.result = 1

\* "2.10" compared with "2.2.x": the second segments decide, as numbers,
\* before the segment that only one version has and that is no number.
C11_Witness ==
  /\ compared.pc = "returned"
  /\ compared.version1 = <<"2", ".", "1", "0">>
  /\ compared.version2 = <<"2", ".", "2", ".", "x">>
  /\ compared.result = 1

\* "1.2" compared with "1.2.0": equal.
C11_WitnessEqual ==
  /\ compared.pc = "returned"
  /\ compared.result = 0
  /\ compared.version1 = <<"1", ".", "2">>
  /\ compared.version2 = <<"1", ".", "2", ".", "0">>

(***************************************************************************)
(* The claims on the latest upload and on the listing (LatestSpec).        *)
(***************************************************************************)
\* The records of a listing whose createdAt is a date, in listing order.
RECURSIVE DatedRecordsOf(_)
DatedRecordsOf(files) ==
  IF files = <<>> THEN <<>>
  ELSE (IF /\ endsWith(files[1].name, JsonExt)
           /\ files[1].content.complete
           /\ JSONparse(files[1].content.text).createdAt[1] = "date"
          THEN <<JSONparse(files[1].content.text)>> ELSE <<>>)
       \o DatedRecordsOf(Tail(files))

\* The instant a createdAt denotes.
Instant(record) == record.createdAt[2] - record.createdAt[3]

\* The first record whose instant is the greatest.
IsFirstLatest(records, i) ==
  /\ \A j \in 1..Len(records) : Instant(records[i]) >= Instant(records[j])
  /\ \A h \in 1..(i - 1) : Instant(records[h]) < Instant(records[i])

\* C12: by upload time, the running latest is the first of the records seen
\* so far, among those that parse and whose createdAt is a date, with the
\* greatest instant; the call returns the running latest of the whole
\* listing, never a record whose createdAt is no date, and fails with
\* NoValidRecords when no record has a createdAt that is a date.
C12_FirstLatestByUploadTime ==
  LET seen    == DatedRecordsOf(SubSeq(latestUpload.jsonFiles, 1,
                                       latestUpload.index - 1))
      records == DatedRecordsOf(latestUpload.files)
  IN  latestUpload.listed =>
        /\ latestUpload.pc = "readFile" =>
             IF seen = <<>> THEN latestUpload.latestMetadata = <<>>
             ELSE \E i \in 1..Len(seen) :
                    /\ IsFirstLatest(seen, i)
                    /\ latestUpload.latestMetadata = <<seen[i]>>
        /\ latestUpload.pc \in {"returned", "thrown"} =>
             IF records = <<>>
               THEN /\ latestUpload.pc = "thrown"
                    /\ latestUpload.thrown \in NoValidRecords
               ELSE /\ latestUpload.pc = "returned"
                    /\ \E i \in 1..Len(records) :
                         /\ IsFirstLatest(records, i)
                         /\ latestUpload.result = <<records[i]>>

\* A listing that begins with a record whose createdAt is no date, followed
\* by two records of the same instant written as different texts: the first
\* of the two is returned.
C12_Witness ==
  LET records == RecordsOf(latestUpload.files)
  IN  /\ latestUpload.pc = "returned"
      /\ Len(records) = 3
      /\ records[1].createdAt = NoDateText
      /\ records[2].createdAt # records[3].createdAt
      /\ DateGetTime(records[2].createdAt) = DateGetTime(records[3].createdAt)
      /\ latestUpload.result = <<records[2]>>

\* A listing whose records all have a createdAt that is no date fails.
C12_WitnessNoDate ==
  /\ latestUpload.pc = "thrown"
  /\ latestUpload.listed
  /\ Len(RecordsOf(latestUpload.files)) = MaxFiles
  /\ latestUpload.thrown = "No valid metadata found"

\* A .json file that cannot be read or parsed.
Fails(file) == endsWith(file.name, JsonExt) /\ ~file.content.complete

RECURSIVE WithoutFailing(_)
WithoutFailing(files) ==
  IF files = <<>> THEN <<>>
  ELSE (IF Fails(files[1]) THEN <<>> ELSE <<files[1]>>)
       \o WithoutFailing(Tail(files))

\* The call run from its listing to its end.
RECURSIVE ResolvedByVersion(_)
ResolvedByVersion(l) ==
  IF l.pc = "readFile" THEN ResolvedByVersion(AfterReadFile(l)) ELSE l

RECURSIVE ResolvedByUploadTime(_)
ResolvedByUploadTime(l) ==
  IF l.pc = "readFile" THEN ResolvedByUploadTime(AfterReadUploadFile(l)) ELSE l

\* The outcome l of a call is the outcome e of the call over the listing
\* without its failing files: the same record, or a failure with
\* NoValidRecords when that listing has no valid record.
SameOutcome(l, e, valid) ==
  /\ l.pc = e.pc
  /\ l.result = e.result
  /\ valid # <<>> => l.pc = "returned"
  /\ l.pc = "thrown" => valid = <<>> /\ l.thrown \in NoValidRecords

\* C13: under either policy, a file of the listing that cannot be read or
\* parsed is skipped: the call ends as it would over the listing without
\* the failing files, it returns a record whenever the listing has a valid
\* one, and it fails, with NoValidRecords, only when there is none.
C13_FailingFilesSkipped ==
  /\ (latest.listed /\ latest.pc \in {"returned", "thrown"}) =>
       SameOutcome(latest,
                   ResolvedByVersion(AfterReaddir(
                     [IdleLatest EXCEPT !.pc = "readdir",
                                        !.files = WithoutFailing(latest.files)])),
                   RecordsOf(latest.files))
  /\ (latestUpload.listed /\ latestUpload.pc \in {"returned", "thrown"}) =>
       SameOutcome(latestUpload,
                   ResolvedByUploadTime(AfterReaddirUploads(
                     CalledLatestUpload(WithoutFailing(latestUpload.files)))),
                   DatedRecordsOf(latestUpload.files))

\* A listing of a failing file, a record, and a failing file again, by
\* upload time: the record is returned.
C13_Witness ==
  /\ latestUpload.pc = "returned"
  /\ Len(latestUpload.jsonFiles) = 3
  /\ Fails(latestUpload.jsonFiles[1])
  /\ ~Fails(latestUpload.jsonFiles[2])
  /\ Fails(latestUpload.jsonFiles[3])
  /\ latestUpload.result = <<JSONparse(latestUpload.jsonFiles[2].content.text)>>

\* The same by version.
C13_WitnessByVersion ==
  /\ latest.pc = "returned"
  /\ Len(latest.jsonFiles) = 3
  /\ Fails(latest.jsonFiles[1])
  /\ ~Fails(latest.jsonFiles[2])
  /\ Fails(latest.jsonFiles[3])
  /\ latest.result = <<JSONparse(latest.jsonFiles[2].content.text)>>

(***************************************************************************)
(* The claims on the download (DownloadSpec, DownloadLiveSpec).            *)
(***************************************************************************)
\* The bytes written to the response, taken by the socket or not yet.
Forwarded == download.buffered + download.accepted

\* C14: when the metadata record or the artifact of the id is missing, the
\* download forwards no byte of the artifact and ends with NotFound.
C14_NotFoundWithoutRecordOrArtifact ==
  (~getMapMetadata(download.mapId).ok \/ ~mapFile[download.mapId].exists) =>
    /\ Forwarded = 0
    /\ download.pc \in {"settled", "done"} =>
         /\ download.promise = "rejected"
         /\ download.thrown = "Map file not found"

\* C15: a progress event is logged after a buffer only when the progress
\* has entered a new bucket of 5% since the last event, or when the whole
\* seconds elapsed have passed a multiple of 10 since the last event and
\* the progress has moved; so while fewer than 10 seconds have elapsed,
\* every event opens a new bucket.
C15_ProgressThrottled ==
  download.progressEvents > 0 =>
    LET e == download.lastProgressEvent
    IN  \/ (e.progress \div 5) > (e.lastLoggedProgress \div 5)
        \/ /\ (e.elapsedTime \div 10000) > (e.lastLoggedElapsed \div 10000)
           /\ e.progress > e.lastLoggedProgress

\* C16: a download that has read the artifact to its end has logged exactly
\* one summary and no error, after every progress event, with the number
\* of the buffers read as its packets and the sum of their sizes over the
\* total size, times 100, as its efficiency.
C16_OneFinalSummary ==
  download.promise = "resolved" =>
    /\ Len(download.finalEvents) = 1
    /\ download.finalEvents[1].action = "download_complete"
    /\ download.finalEvents[1].totalPackets = download.buffers
    /\ download.finalEvents[1].efficiency
         = Efficiency(download.offset, download.totalSize)
    /\ download.offset = mapFile[download.mapId].len
    /\ ~download.progressAfterFinal

\* A download of three buffers, the last one short, read to the end, with
\* progress events before the summary.
C16_Witness ==
  /\ download.promise = "resolved"
  /\ download.buffers = 3
  /\ download.offset = 2 * HighWaterMark + 100
  /\ download.progressEvents = 2
  /\ download.finalEvents[1].efficiency = Decimal(100, 0)

\* The stream has failed.
StreamFailed == download.reader = "errored"

\* C17: when the stream fails, one error event is logged with the bytes
\* read and the progress so far, and the download fails with the error of
\* the stream; from then on nothing is read and nothing is written to the
\* response, which holds each byte read once.
C17_StreamFailureSurfaced ==
  /\ [](StreamFailed =>
          /\ download.promise = "rejected"
          /\ download.thrown = "EIO"
          /\ Len(download.finalEvents) = 1
          /\ download.finalEvents[1].action = "download_error"
          /\ download.finalEvents[1].bytesReadBeforeError = download.offset
          /\ download.finalEvents[1].progressBeforeError
               = calculateTransferMetrics(download.offset, download.totalSize,
                                          0, 0).progress
          /\ Forwarded = download.offset)
  /\ [][StreamFailed =>
          /\ download'.offset = download.offset
          /\ download'.buffers = download.buffers
          /\ download'.buffered + download'.accepted = Forwarded
          /\ download'.finalEvents = download.finalEvents]_vars

\* A stream that fails after some buffers and before the end of the file.
C17_Witness ==
  /\ StreamFailed
  /\ download.pc = "done"
  /\ download.offset = 2 * HighWaterMark
  /\ download.totalSize = 2 * HighWaterMark + 100
  /\ download.finalEvents[1].progressBeforeError = Decimal(100, 0)

\* C18: while the stream is piped to the response it is paused exactly
\* when the response has asked to wait for its drain, the bytes read and
\* not yet taken by the socket stay under the two high-water marks
\* together, whatever the size of the artifact, and while the stream is
\* paused no buffer is counted or written.
C18_Backpressure ==
  /\ [](/\ download.piped =>
             /\ (download.reader = "paused") = download.needDrain
             /\ download.needDrain => download.buffered >= DestHighWaterMark
             /\ download.offset - download.accepted = download.buffered
         /\ download.buffered < DestHighWaterMark + HighWaterMark)
  /\ [][download.reader = "paused" =>
          /\ download'.bytesRead = download.bytesRead
          /\ download'.packetCount = download.packetCount
          /\ download'.offset = download.offset
          /\ download'.buffered + download'.accepted = Forwarded]_vars

\* A stream that was paused and has been resumed by a drain, in the middle
\* of the file.
C18_Witness ==
  /\ download.piped
  /\ download.reader = "flowing"
  /\ download.accepted = 3 * HighWaterMark
  /\ download.buffered = 0
  /\ download.offset < mapFile[download.mapId].len

\* C19: when the response is closed or fails before the artifact is read
\* to its end, the file of the stream is eventually closed and the promise
\* of the download eventually settled.
C19_ClosedDestinationSettles ==
  (download.dest \in {"closed", "errored"})
    ~> (~download.fdOpen /\ download.promise # "pending")

(***************************************************************************)
(* The claim on the log of the rollback (Spec).                            *)
(***************************************************************************)
\* C20: when an unlink of the rollback of an upload has failed, the failure
\* of the cleanup is logged.
C20_CleanupFailureLogged ==
  \A p \in Uploaders :
    (up[p].pc = "failed" /\ up[p].unlinkFailed) =>
      up[p].cleanupLogged = "upload_cleanup_error"

(***************************************************************************)
(* The claims on the storage under concurrent uploads (Spec).              *)
(***************************************************************************)
\* The uploads that have persisted their record and returned.
Persisted(p) == up[p].pc = "done"

\* C21: a record persisted by a completed upload, and its artifact, are left
\* as they are by every later step of every upload, rollbacks included; the
\* record carries createdAt equal to updatedAt; and the calls that have been
\* made have ids that differ, so that a later upload is a new record.
C21_PersistedRecordImmutable ==
  /\ [](\A p \in Uploaders :
         /\ Persisted(p) =>
              /\ getMapMetadata(up[p].mapId).ok
              /\ getMapMetadata(up[p].mapId).value.createdAt =
                   getMapMetadata(up[p].mapId).value.updatedAt
              /\ getMapMetadata(up[p].mapId).value.mapId = up[p].mapId
         /\ \A q \in Uploaders :
              (p # q /\ up[p].pc # "idle" /\ up[q].pc # "idle") =>
                up[p].mapId # up[q].mapId)
  /\ [][\A p \in Uploaders :
          Persisted(p) =>
            /\ metaFile'[up[p].mapId] = metaFile[up[p].mapId]
            /\ mapFile'[up[p].mapId] = mapFile[up[p].mapId]
            /\ Persisted(p)']_vars

\* A persisted record, its artifact whole, after a later upload has failed
\* at its own metadata write and removed its own two files.
C21_Witness ==
  \E p, q \in Uploaders :
    /\ Persisted(p) /\ p < q
    /\ mapFile[up[p].mapId].len = up[p].fileBuffer.length
    /\ up[q].pc = "failed" /\ up[q].error = "MetadataWriteError"
    /\ ~mapFile[up[q].mapId].exists /\ ~metaFile[up[q].mapId].exists

\* The uploads whose paths are those of id.
OwnersOf(id) == {p \in Uploaders : up[p].pc # "idle" /\ up[p].mapId = id}

\* C22: in every step of every interleaving of uploads, an artifact or a
\* metadata file that is written or deleted is at the paths of the id of the
\* upload that takes the step, and of no other upload: the rollback of one
\* upload leaves the files of the others as they are, and no path has two
\* writers.
C22_OwnPathsOnly ==
  [][\A id \in MapIds :
       (mapFile'[id] # mapFile[id] \/ metaFile'[id] # metaFile[id]) =>
         \E p \in Uploaders :
           /\ OwnersOf(id) = {p}
           /\ up'[p] # up[p]
           /\ \A q \in Uploaders \ {p} : up'[q] = up[q]]_vars

\* An upload in its rollback, its artifact removed, while another upload is
\* in the middle of its chunks, its artifact partly written.
C22_Witness ==
  \E p, q \in Uploaders :
    /\ up[p].pc = "unlinkMetadata" /\ ~up[p].unlinkFailed
    /\ ~mapFile[up[p].mapId].exists
    /\ up[q].pc = "chunk" /\ up[q].processedChunks = 3
    /\ mapFile[up[q].mapId].len = 3 * ChunkSize

(***************************************************************************)
(* The claims on MetricsCalculator (MetricsSpec).                          *)
(***************************************************************************)
\* A call of fn has returned.
Returned(fn) == measured.pc = "returned" /\ measured.fn = fn

\* C23: calculateTransferMetrics gives an estimatedTimeRemaining if and only
\* if its speed is above 0 and its rounded progress is below 100, and
\* otherwise gives undefined, not 0; the speed is above 0 exactly when time
\* has elapsed and bytes were transferred, and is 0 whenever no time has
\* elapsed; and the whole of a size that is not 0, a second after the
\* start, gives the progress 100 and no estimate.
C23_EstimateOnlyWhileMoving ==
  Returned("calculateTransferMetrics") =>
    LET bytesTransferred == measured.args[1]
        totalSize        == measured.args[2]
        elapsed          == measured.args[4] - measured.args[3]
        m                == measured.metrics
        estimated        == m.estimatedTimeRemaining.kind # "undefined"
    IN  /\ estimated <=>
             (IsPositive(m.throughput) /\ IsBelow(m.progress, 100))
        /\ estimated <=>
             /\ elapsed > 0 /\ bytesTransferred > 0 /\ totalSize # 0
             /\ 200 * bytesTransferred < 199 * totalSize
        /\ ~estimated => m.estimatedTimeRemaining = JsUndefined
        /\ estimated =>
             /\ m.estimatedTimeRemaining.num = totalSize - bytesTransferred
             /\ m.estimatedTimeRemaining.den = m.throughput
        /\ IsPositive(m.throughput) <=> (elapsed > 0 /\ bytesTransferred > 0)
        /\ elapsed <= 0 =>
             /\ m.throughput = Decimal(0, 0)
             /\ m.speed = Quotient(Decimal(0, 0), 1024 * 1024)
        /\ (bytesTransferred = totalSize /\ totalSize # 0 /\ elapsed = 1000) =>
             /\ m.progress = Decimal(100, 0)
             /\ ~estimated

\* The whole of 200 bytes a second after the start: progress 100, no
\* estimate.
C23_Witness ==
  /\ Returned("calculateTransferMetrics")
  /\ measured.args = <<200, 200, 1000, 2000>>
  /\ measured.metrics.progress = Decimal(100, 0)
  /\ measured.metrics.estimatedTimeRemaining = JsUndefined

\* A part of the bytes after a second: an estimate of the rest at the speed
\* so far.
C23_WitnessEstimated ==
  /\ Returned("calculateTransferMetrics")
  /\ measured.args = <<50, 200, 0, 1000>>
  /\ measured.metrics.estimatedTimeRemaining =
       Quotient(150, Quotient(50, 1000))

\* All but a byte of 200: the progress rounds to 100, and there is no
\* estimate although a byte remains.
C23_WitnessRounded ==
  /\ Returned("calculateTransferMetrics")
  /\ measured.args = <<199, 200, 0, 1000>>
  /\ measured.metrics.progress = Decimal(100, 0)
  /\ measured.metrics.estimatedTimeRemaining = JsUndefined

\* The interval of a call of shouldLogProgress: 10 when none is given.
IntervalOf(logInterval) ==
  IF logInterval = JsUndefined THEN 10 ELSE logInterval.value

\* Math.floor(x / interval) for x >= 0 and interval > 0: the number of
\* multiples of the interval in 1..x.
Bucket(x, interval) == Cardinality({k \in 1..x : k % interval = 0})

\* C24: shouldLogProgress is true if and only if the bucket of the progress,
\* floor(progress / logInterval), is above the bucket of the last logged
\* progress, the interval being 10 when none is given: that is, if and only
\* if a multiple of the interval lies above the last logged progress and at
\* or below the progress.  Of (24, 20, 10) it is false and of (30, 24, 10)
\* true.
C24_BucketCrossing ==
  Returned("shouldLogProgress") =>
    LET progress           == measured.args[1]
        lastLoggedProgress == measured.args[2]
        interval           == IntervalOf(measured.args[3])
    IN  /\ measured.should <=>
             Bucket(progress, interval) > Bucket(lastLoggedProgress, interval)
        /\ measured.should <=>
             \E k \in (lastLoggedProgress + 1)..progress : k % interval = 0
        /\ (progress = 24 /\ lastLoggedProgress = 20 /\ interval = 10) =>
             ~measured.should
        /\ (progress = 30 /\ lastLoggedProgress = 24 /\ interval = 10) =>
             measured.should

\* From 24 to 30 with no interval given: the bucket of 30 is crossed.
C24_Witness ==
  /\ Returned("shouldLogProgress")
  /\ measured.args = <<30, 24, JsUndefined>>
  /\ measured.should

\* From 20 to 24 by tens: no bucket is crossed.
C24_WitnessSameBucket ==
  /\ Returned("shouldLogProgress")
  /\ measured.args = <<24, 20, Decimal(10, 0)>>
  /\ ~measured.should

(***************************************************************************)
(* The claims on the course of one upload (Spec).                          *)
(***************************************************************************)
\* The stages of the transaction, in order.
StageOrder ==
  <<"id", "directories", "validation", "write", "checksum", "record",
    "persist">>

\* The places of the code at which each stage is under way.
InDirectories == {"mkdirBase", "mkdirMetadata"}
InWrite       == {"open", "chunk", "close", "writeFile"}
InCleanup     == {"unlinkMap", "unlinkMetadata", "failed"}

\* C25: the stages an upload has completed are, in every state, the first
\* ones of: id, directories, validation, write, checksum, record, persist;
\* the stage under way is the one after the last completed; the write of
\* the artifact is not begun before both directories are there; and the
\* write of the metadata is begun only with the artifact written whole and
\* closed, and not before.
C25_StagesInOrder ==
  \A p \in Uploaders :
    LET u == up[p]
        n == Len(u.stages)
    IN  /\ n <= Len(StageOrder)
        /\ u.stages = SubSeq(StageOrder, 1, n)
        /\ u.pc = "idle" <=> n = 0
        /\ u.pc \in InDirectories => n = 1
        /\ u.pc \in InWrite =>
             /\ n = 3
             /\ {"base", "metadata"} \subseteq dirs
             /\ ValidFileType(u.originalFilename)
             /\ ~metaFile[u.mapId].exists
        /\ u.pc \in InDirectories => ~mapFile[u.mapId].exists
        /\ u.pc = "writeMetadata" =>
             /\ n = 6
             /\ u.pending = NoError /\ ~u.handleOpen
             /\ mapFile[u.mapId].exists
             /\ mapFile[u.mapId].len = u.fileBuffer.length
             /\ SumSeq(u.writes) = u.fileBuffer.length
             /\ u.metadata = BuildMetadata(u)
             /\ ~metaFile[u.mapId].exists
        /\ u.pc = "done" <=> n = 7
        /\ (u.pc # "idle" /\ metaFile[u.mapId].exists) =>
             /\ n >= 6
             /\ u.error \in {NoError, "MetadataWriteError"}
        /\ u.pc \in InCleanup => n < 7

\* An upload that has gone through its seven stages by chunks, beside one
\* that failed at a chunk write with three stages completed.
C25_Witness ==
  \E p, q \in Uploaders :
    /\ up[p].pc = "done" /\ up[p].writePath = "chunked"
    /\ up[p].stages = StageOrder
    /\ up[q].pc = "failed" /\ up[q].error = "WriteError"
    /\ up[q].stages = SubSeq(StageOrder, 1, 3)

\* C26: the file handle of a chunked upload is open from the open of the
\* artifact to the close in the finally block and at no other place: a
\* chunk write that has failed leads to the close, the cleanup begins with
\* the handle closed, and an upload that has returned or thrown has no
\* handle open.
C26_HandleClosedBeforeCleanup ==
  \A p \in Uploaders :
    LET u == up[p]
    IN  /\ u.handleOpen <=> u.pc \in {"chunk", "close"}
        /\ u.handleOpen => u.writePath = "chunked"
        /\ u.pending # NoError =>
             /\ u.pending = "WriteError"
             /\ u.pc # "chunk"
        /\ u.pc \in InCleanup => ~u.handleOpen
        /\ u.pc \in {"done", "failed"} => ~u.handleOpen

\* A chunked upload whose last chunk write failed: closed, then cleaned up,
\* its artifact removed; beside a chunked upload that has returned.
C26_Witness ==
  \E p, q \in Uploaders :
    /\ up[p].pc = "failed" /\ up[p].error = "WriteError"
    /\ up[p].writePath = "chunked" /\ up[p].processedChunks = 10
    /\ ~up[p].handleOpen /\ ~mapFile[up[p].mapId].exists
    /\ up[q].pc = "done" /\ up[q].writePath = "chunked" /\ ~up[q].handleOpen

\* C27 (as claimed): in every state, whatever the uploads are at, an id
\* whose metadata file exists has its artifact file, holding every byte of
\* the buffer of the upload of that id.
C27_MetadataImpliesArtifact ==
  \A p \in Uploaders :
    (up[p].pc # "idle" /\ metaFile[up[p].mapId].exists) =>
      /\ mapFile[up[p].mapId].exists
      /\ mapFile[up[p].mapId].len = up[p].fileBuffer.length

(***************************************************************************)
(* The claims on the events of a download (DownloadSpec).                  *)
(***************************************************************************)
\* The step logs a progress event.
LogsProgress == download'.progressEvents # download.progressEvents

\* C28: in every step of a download, the last logged progress changes only
\* when a progress event is logged and is then the progress of that event;
\* the event carries a progress above the last logged one, so above the
\* progress of the event before it.
C28_ProgressStrictlyIncreasing ==
  [][/\ LogsProgress =>
          /\ download'.progressEvents = download.progressEvents + 1
          /\ download'.lastProgressEvent.progress > download.lastLoggedProgress
          /\ download'.lastLoggedProgress = download'.lastProgressEvent.progress
          /\ download.progressEvents > 0 =>
               download'.lastProgressEvent.progress >
                 download.lastProgressEvent.progress
     /\ ~LogsProgress =>
          /\ download'.lastLoggedProgress = download.lastLoggedProgress
          /\ download'.lastProgressEvent = download.lastProgressEvent]_vars

\* After five events, the last at 25, a seventh buffer brings the progress
\* to 29 and logs nothing.
C28_Witness ==
  /\ download.progressEvents = 5
  /\ download.lastLoggedProgress = 25
  /\ download.lastProgressEvent.lastLoggedProgress = 21
  /\ download.buffers = 7

(***************************************************************************)
(* The claim on the progress events of a chunked upload (Spec).            *)
(***************************************************************************)
\* C29 (as claimed): the writtenBytes of every upload_chunk_progress event
\* is the number of bytes written to the artifact when the event is logged,
\* and is at most the length of the buffer.
C29_WrittenBytesExact ==
  \A p \in Uploaders :
    up[p].chunkEvents > 0 =>
      /\ up[p].lastChunkEvent.writtenBytes = up[p].lastChunkEvent.written
      /\ up[p].lastChunkEvent.writtenBytes <= up[p].fileBuffer.length

(***************************************************************************)
(* The claim on the divisions of a download (DownloadSpec).                *)
(***************************************************************************)
\* A value that is a number: not NaN, not Infinity, not undefined.
IsFinite(x) == x.kind \in {"number", "quotient"}

\* C30 (as claimed): every progress event and every final summary of a
\* download is built with calculateNetworkMetrics called on an elapsed time
\* that is not 0 and with a progress computed of a total size that is not
\* 0: its throughput and its progress are numbers.
C30_NoDivisionByZero ==
  /\ download.progressEvents > 0 =>
       /\ download.lastProgressEvent.elapsedTime # 0
       /\ IsFinite(download.lastProgressEvent.networkMetrics.throughputMbps)
       /\ download.totalSize # 0
  /\ \A k \in 1..Len(download.finalEvents) :
       download.finalEvents[k].action = "download_complete" =>
         /\ download.finalEvents[k].elapsedTime # 0
         /\ IsFinite(download.finalEvents[k].networkMetrics.throughputMbps)
         /\ download.finalEvents[k].totalSize # 0
         /\ IsFinite(download.finalEvents[k].progress)

============================================================================
